---- MODULE Spec2Model ----
(***************************************************************************)
(* Ledger transaction engine of the payment processor: card-to-card        *)
(* transfers (transferService.ProcessTransfer) and card payments           *)
(* (paymentService.ProcessCardPayment) running as concurrent requests      *)
(* against one MySQL store.  Every database statement is one step.         *)
(***************************************************************************)
EXTENDS Integers, FiniteSets, Sequences, TLC

\* ------------------------------------------------------------- bounds
MaxBalance == 2
MaxAmount == 1
\* Refresh tokens issued in a behaviour.
MaxTokens == 1
\* Capacity of logChannel (100 in NewPaymentService) and size at which the
\* worker flushes its batch (10 in logWorker), scaled to two requests.
LogChannelCap == 1
BatchSize == 2

\* ------------------------------------------------------------- universe
\* Concurrent requests (goroutines serving one HTTP request each).
Procs == {1, 2}
\* Engine instances: each has its own paymentService and so its own cardMutexes.
Instances == {1, 2}
\* Rows of the cards table; card 3 belongs to a customer who makes no request.
Cards == {1, 2, 3}
\* Card identifiers a request may carry; 0 names no row.
CardIDs == {0, 1, 2}
\* Account identifiers a request may carry as merchant:
\* 10 active merchant, 11 inactive merchant, 12 active non-merchant, 13 no row.
AccountIDs == {10, 11, 12, 13}
Amounts == (0 - 1)..MaxAmount
\* Calls of ProcessTransfer: every pair of identifiers with every positive
\* amount, and the amounts that are not positive with one pair.
TransferCalls ==
    {c \in CardIDs \X CardIDs \X Amounts : c[3] > 0 \/ (c[1] = 1 /\ c[2] = 2)}
\* Calls of ProcessCardPayment: the good merchant with every card and every
\* positive amount; the other merchants and amounts with card 1.
PaymentCalls ==
    {c \in AccountIDs \X CardIDs \X Amounts :
        (c[3] > 0 /\ c[1] = 10) \/ c[2] = 1}
NoProc == 0
Nil == 0 - 1

AccountExists(a) == a \in {10, 11, 12}
\* Mutant: the active flag of the merchant is not looked at.
AccountActiveAlways(a) == TRUE
AccountActive(a) == a \in {10, 12}
AccountIsMerchant(a) == a \in {10, 11}

\* ------------------------------------------------------------- messages
TransferStatusPending == "pending"
TransferStatusCompleted == "completed"
TransferStatusFailed == "failed"
PaymentStatusPending == "pending"
PaymentStatusAccepted == "accepted"
PaymentStatusFailed == "failed"
ErrAccountNotFound == "account not found"
ErrInsufficientBalance == "insufficient balance"
ErrAccountInactive == "account is not active"
ErrInvalidAmount == "invalid amount"
ErrInvalidCard == "invalid card"
ErrInvalidCredentials == "invalid email or password"
ErrUserAlreadyExists == "user already exists"
ErrInvalidRefreshToken == "invalid or expired refresh token"
\* Any error of the driver that is not gorm.ErrRecordNotFound.
StoreErr == "store error"
NoErr == ""
NoRecord == [Status |-> "nil", ErrorMessage |-> ""]
NoOp == [kind |-> "none", source |-> 0, destination |-> 0, merchant |-> 0,
         card |-> 0, amount |-> 0]

VARIABLES
    balance,      \* cards.balance, committed
    active,       \* cards.active
    rowLock,      \* InnoDB exclusive row lock: the transaction holding it
    txWrites,     \* uncommitted balance writes of each open transaction
    cardMutexes,  \* paymentService.cardMutexes: holder of each card's mutex
    pc,           \* position of each request
    op,           \* arguments of the call in progress
    srcBal,       \* sourceCard.Balance / card.Balance as read
    dstBal,       \* destCard.Balance as read
    transfer,     \* the *model.Transfer built by the call
    payment,      \* the *model.Payment built by the call
    txErr,        \* err of WithTransaction / pending rejection reason
    err,          \* error returned by the call
    transferRecs, \* rows of the transfers table
    paymentRecs,  \* rows of the payments table
    expected,     \* initial balances plus the deltas of the committed operations
    pre,          \* committed balances found by the latest call entered at rest
    instance,     \* the engine instance (process) serving each request
    paymentLogs,  \* the entries handed to logPayment
    logChannel,   \* paymentService.logChannel: the buffered entries, oldest first
    logStore,     \* rows of the payment_logs table, in the order written
    batch,        \* logWorker's pending batch
    workerRunning, \* logWorker has not returned
    cache,        \* the value stored under each entity's key, Nil when absent
    cacheUp,      \* the redis server answers
    cacheErr,     \* the error returned by the latest call of the cache client
    deleteCalls,  \* cache.Delete calls made: call, entity, and whether redis answered
    reader,       \* the GetAccount call in progress and its latest result
    total,        \* the latest result of GetAccountTotalBalance
    users,        \* rows of the accounts table as the auth service sees them
    refreshTokens, \* the token store: the refresh_token:<id> keys and their data
    session,      \* the auth call in progress of each client and its latest result
    nextTokenID,  \* the next token id generateTokenID returns
    issued,       \* the refresh tokens handed to clients
    loggedOut,    \* the token ids for which Logout returned nil
    material,     \* the card number, expiry and CVV a payment carries, and its clock
    accountMutexes, \* holder of each account's mutex in the accountMutexes map
    accountBalance  \* the committed balance of each row of the accounts table

vars == <<balance, active, rowLock, txWrites, cardMutexes, pc, op, srcBal,
          dstBal, transfer, payment, txErr, err, transferRecs, paymentRecs, expected,
          pre, instance, paymentLogs, logChannel, logStore, batch, workerRunning,
          cache, cacheUp, cacheErr, deleteCalls, reader, total, users,
          refreshTokens, session, nextTokenID, issued, loggedOut, material,
          accountMutexes, accountBalance>>

store == <<balance, active, rowLock, txWrites>>
locals == <<srcBal, dstBal>>
\* What logPayment writes, and what only logWorker writes.
logging == <<paymentLogs, logChannel, logStore>>
worker == <<batch, workerRunning>>
records == <<transferRecs, paymentRecs, logging>>
\* What the cache client and the read-through reader write.
caching == <<cache, cacheUp, cacheErr, deleteCalls, reader>>
\* What the services beside transfers and payments write.
authState == <<users, refreshTokens, session, nextTokenID, issued, loggedOut>>
cardState == <<material, accountMutexes, accountBalance>>
services == <<total, authState, cardState>>

NoWrites == [c \in Cards |-> Nil]
\* No GetAccount call is in progress and none has returned.
NoRead == [pc |-> "idle", id |-> 0, account |-> Nil, result |-> Nil,
           err |-> NoErr]
\* GetAccountTotalBalance has not returned yet.
NoTotal == [account |-> 0, value |-> 0, err |-> NoErr]
\* A nil *model.Account and an empty token string.
NoAccount == [id |-> <<0, 0, 0, 0>>, email |-> "", name |-> "", hash |-> <<>>]
NoToken == [signed |-> FALSE, id |-> 0, userID |-> 0, email |-> ""]
\* No card material: the call carries none, or has checked it.
NoMaterial == [number |-> <<>>, expiry |-> <<>>, cvv |-> <<>>,
               now |-> [year |-> 0, month |-> 0, day |-> 0]]
\* No auth call is in progress and none has returned.
NoSession == [pc |-> "idle", op |-> "none", email |-> "", password |-> "",
              name |-> "", token |-> NoToken, account |-> NoAccount,
              access |-> NoToken, refresh |-> NoToken, err |-> NoErr]

\* The state after construction, whatever instance serves each request.
InitStore ==
    /\ balance \in {f \in [Cards -> 0..MaxBalance] : f[3] = MaxBalance}
    /\ active \in {f \in [Cards -> BOOLEAN] : f[1] /\ f[3]}
    /\ rowLock = [c \in Cards |-> NoProc]
    /\ txWrites = [p \in Procs |-> NoWrites]
    /\ cardMutexes = [k \in Instances \X CardIDs |-> NoProc]
    /\ pc = [p \in Procs |-> "idle"]
    /\ op = [p \in Procs |-> NoOp]
    /\ srcBal = [p \in Procs |-> 0]
    /\ dstBal = [p \in Procs |-> 0]
    /\ transfer = [p \in Procs |-> NoRecord]
    /\ payment = [p \in Procs |-> NoRecord]
    /\ txErr = [p \in Procs |-> NoErr]
    /\ err = [p \in Procs |-> NoErr]
    /\ transferRecs = {}
    /\ paymentRecs = {}
    /\ expected = balance
    /\ pre = balance
    /\ paymentLogs = {}
    /\ logChannel = <<>>
    /\ logStore = <<>>
    /\ batch = <<>>
    /\ workerRunning = TRUE
    /\ cache = [c \in Cards |-> Nil]
    /\ cacheUp = TRUE
    /\ cacheErr = NoErr
    /\ deleteCalls = {}
    /\ reader = NoRead
    /\ total = NoTotal
    /\ users = {}
    /\ refreshTokens = {}
    /\ session = [p \in Procs |-> NoSession]
    /\ nextTokenID = 1
    /\ issued = {}
    /\ loggedOut = {}
    /\ material = [p \in Procs |-> NoMaterial]
    /\ accountMutexes = [a \in AccountIDs |-> NoProc]
    /\ accountBalance = [a \in AccountIDs |-> 0]

\* One engine instance serves every request.
Init == InitStore /\ instance = [p \in Procs |-> 1]

\* Two engine instances share the store; each serves one of the requests.
InitMulti == InitStore /\ instance = [p \in Procs |-> p]

\* The identifier of the record of request p.
CallID(p) == p

\* No call is in progress.
Quiet == \A q \in Procs: pc[q] \in {"idle", "done"}

\* Each request makes one call.
CanCall(p) == pc[p] = "idle"

\* The call returns e; its local variables go out of scope.
Return(p, e) ==
    /\ err' = [err EXCEPT ![p] = e]
    /\ pc' = [pc EXCEPT ![p] = "done"]
    /\ srcBal' = [srcBal EXCEPT ![p] = 0]
    /\ dstBal' = [dstBal EXCEPT ![p] = 0]
    /\ txErr' = [txErr EXCEPT ![p] = NoErr]
    /\ op' = [op EXCEPT ![p] = NoOp]

\* amount.LessThanOrEqual(decimal.Zero)
InvalidAmount(amt) == amt <= 0

\* sourceCardID == destinationCardID
SelfTransfer(s, d) == s = d

\* Mutant: the comparison is off by one.
InsufficientOffByOne(bal, amt) == bal < amt - 1

\* sourceCard.Balance.LessThan(amount)
Insufficient(bal, amt) == bal < amt

\* sourceCard.Balance.Sub(amount)
NewSourceBalance(bal, amt) == bal - amt

\* Mutant: the destination is debited instead of credited.
NewDestBalanceSub(bal, amt) == bal - amt

\* destCard.Balance.Add(amount)
NewDestBalance(bal, amt) == bal + amt

\* card.Balance.Sub(amount)
NewCardBalance(bal, amt) == bal - amt

\* Mutant: the comparison is off by one.
OverdraftOffByOne(newBalance) == newBalance < 0 - 1

\* Mutant: the balance check is missing.
OverdraftNever(newBalance) == FALSE

\* newBalance.LessThan(decimal.Zero)
Overdraft(newBalance) == newBalance < 0

\* ------------------------------------------------------------- store
\* A statement on row c by p waits while another transaction holds the row.
RowFree(p, c) == rowLock[c] \in {NoProc, p}

\* What a locking read inside p's transaction sees of row c.
TxRead(p, c) == IF txWrites[p][c] # Nil THEN txWrites[p][c] ELSE balance[c]

\* Rows locked by p are released when its transaction ends.
Released(p) == [c \in Cards |-> IF rowLock[c] = p THEN NoProc ELSE rowLock[c]]

\* Commit makes p's writes the committed balances.
Committed(p) ==
    [c \in Cards |-> IF txWrites[p][c] # Nil THEN txWrites[p][c] ELSE balance[c]]

\* Mutant: the writes were made outside the transaction and stay.
RolledBackKeepsWrites(p) == Committed(p)

\* Rollback leaves the committed balances as they were.
RolledBack(p) == balance

\* ------------------------------------------------------------- transfer
\* A request enters ProcessTransfer(sourceCardID, destinationCardID, amount).
ProcessTransfer(p, s, d, amt) ==
    /\ CanCall(p)
    /\ op' = [op EXCEPT ![p] = [kind |-> "transfer", source |-> s,
                                destination |-> d, merchant |-> 0,
                                card |-> 0, amount |-> amt]]
    /\ pc' = [pc EXCEPT ![p] = "t_validate"]
    /\ pre' = IF Quiet THEN balance ELSE pre
    /\ UNCHANGED <<expected, instance, worker, services, caching>>
    /\ UNCHANGED <<store, cardMutexes, locals, transfer, payment, txErr, err,
                   records>>

\* The checks made before the transaction, then the in-memory record.
ValidateTransfer(p) ==
    /\ UNCHANGED <<expected, pre, instance, worker, services, caching>>
    /\ pc[p] = "t_validate"
    /\ IF InvalidAmount(op[p].amount)
       THEN /\ Return(p, ErrInvalidAmount)
            /\ UNCHANGED transfer
       ELSE IF SelfTransfer(op[p].source, op[p].destination)
       THEN /\ Return(p, "cannot transfer to the same card")
            /\ UNCHANGED transfer
       ELSE /\ transfer' = [transfer EXCEPT ![p] =
                   [Status |-> TransferStatusPending, ErrorMessage |-> ""]]
            /\ pc' = [pc EXCEPT ![p] = "t_begin"]
            /\ UNCHANGED <<op, locals, txErr, err>>
    /\ UNCHANGED <<store, cardMutexes, payment, records>>

\* The closure fails: the record is marked Failed, the closure returns e and
\* db.Transaction rolls back, which drops the writes and releases the rows.
TxFail(p, msg, e) ==
    /\ transfer' = [transfer EXCEPT ![p] =
           [Status |-> TransferStatusFailed, ErrorMessage |-> msg]]
    /\ txErr' = [txErr EXCEPT ![p] = e]
    /\ balance' = RolledBack(p)
    /\ txWrites' = [txWrites EXCEPT ![p] = NoWrites]
    /\ rowLock' = Released(p)
    /\ pc' = [pc EXCEPT ![p] = "t_create"]

\* db.Transaction opens the transaction; BEGIN itself may fail.
WithTransactionBegin(p) ==
    /\ UNCHANGED <<expected, pre, instance, worker, services, caching>>
    /\ pc[p] = "t_begin"
    /\ \E ok \in BOOLEAN:
         IF ok
         THEN /\ pc' = [pc EXCEPT ![p] = "t_source"]
              /\ txErr' = txErr
         ELSE /\ pc' = [pc EXCEPT ![p] = "t_create"]
              /\ txErr' = [txErr EXCEPT ![p] = StoreErr]
    /\ UNCHANGED <<store, cardMutexes, op, locals, transfer, payment, err,
                   records>>

\* txRepo.FindByIDForUpdate(sourceCardID) and the checks on the source.
LockSource(p) ==
    /\ UNCHANGED <<expected, pre, instance, worker, services, caching>>
    /\ pc[p] = "t_source"
    /\ LET s == op[p].source IN
       \/ /\ TxFail(p, StoreErr, StoreErr)
          /\ UNCHANGED srcBal
       \/ /\ s \notin Cards
          /\ TxFail(p, "source card not found", "source card not found")
          /\ UNCHANGED srcBal
       \/ /\ s \in Cards
          /\ RowFree(p, s)
          /\ srcBal' = [srcBal EXCEPT ![p] = TxRead(p, s)]
          /\ IF ~active[s]
             THEN TxFail(p, "source card is not active", "source card is not active")
             ELSE IF Insufficient(TxRead(p, s), op[p].amount)
             THEN TxFail(p, ErrInsufficientBalance, ErrInsufficientBalance)
             ELSE /\ rowLock' = [rowLock EXCEPT ![s] = p]
                  /\ pc' = [pc EXCEPT ![p] = "t_dest"]
                  /\ UNCHANGED <<transfer, txErr, txWrites, balance>>
    /\ UNCHANGED <<active, cardMutexes, op, dstBal, payment, err, records>>

\* txRepo.FindByIDForUpdate(destinationCardID) and the checks on it.
LockDestination(p) ==
    /\ UNCHANGED <<expected, pre, instance, worker, services, caching>>
    /\ pc[p] = "t_dest"
    /\ LET d == op[p].destination IN
       \/ /\ TxFail(p, StoreErr, StoreErr)
          /\ UNCHANGED dstBal
       \/ /\ d \notin Cards
          /\ TxFail(p, "destination card not found", "destination card not found")
          /\ UNCHANGED dstBal
       \/ /\ d \in Cards
          /\ RowFree(p, d)
          /\ dstBal' = [dstBal EXCEPT ![p] = TxRead(p, d)]
          /\ IF ~active[d]
             THEN TxFail(p, "destination card is not active",
                         "destination card is not active")
             ELSE /\ rowLock' = [rowLock EXCEPT ![d] = p]
                  /\ pc' = [pc EXCEPT ![p] = "t_updsrc"]
                  /\ UNCHANGED <<transfer, txErr, txWrites, balance>>
    /\ UNCHANGED <<active, cardMutexes, op, srcBal, payment, err, records>>

\* txRepo.UpdateBalance(sourceCardID, sourceCard.Balance.Sub(amount)).
UpdateSource(p) ==
    /\ UNCHANGED <<expected, pre, instance, worker, services, caching>>
    /\ pc[p] = "t_updsrc"
    /\ \E ok \in BOOLEAN:
         IF ok
         THEN /\ txWrites' = [txWrites EXCEPT ![p][op[p].source] =
                                  NewSourceBalance(srcBal[p], op[p].amount)]
              /\ pc' = [pc EXCEPT ![p] = "t_upddst"]
              /\ UNCHANGED <<transfer, txErr, rowLock, balance>>
         ELSE TxFail(p, "failed to update source balance: store error", StoreErr)
    /\ UNCHANGED <<active, cardMutexes, op, locals, payment, err, records>>

\* txRepo.UpdateBalance(destinationCardID, destCard.Balance.Add(amount)),
\* then the record is marked Completed and the closure returns nil.
UpdateDestination(p) ==
    /\ UNCHANGED <<expected, pre, instance, worker, services, caching>>
    /\ pc[p] = "t_upddst"
    /\ \E ok \in BOOLEAN:
         IF ok
         THEN /\ txWrites' = [txWrites EXCEPT ![p][op[p].destination] =
                                  NewDestBalance(dstBal[p], op[p].amount)]
              /\ transfer' = [transfer EXCEPT ![p] =
                     [Status |-> TransferStatusCompleted, ErrorMessage |-> ""]]
              /\ pc' = [pc EXCEPT ![p] = "t_commit"]
              /\ UNCHANGED <<txErr, rowLock, balance>>
         ELSE TxFail(p, "failed to update destination balance: store error",
                     StoreErr)
    /\ UNCHANGED <<active, cardMutexes, op, locals, payment, err, records>>

\* db.Transaction commits after the closure returned nil; a failed commit
\* loses the writes and is the error of WithTransaction.  Rows are released.
WithTransactionCommit(p) ==
    /\ UNCHANGED <<pre, instance, worker, services, caching>>
    /\ pc[p] = "t_commit"
    /\ \E ok \in BOOLEAN:
         IF ok
         THEN /\ balance' = Committed(p)
              /\ expected' = [expected EXCEPT
                     ![op[p].source] = @ - op[p].amount,
                     ![op[p].destination] = @ + op[p].amount]
              /\ UNCHANGED txErr
         ELSE /\ txErr' = [txErr EXCEPT ![p] = StoreErr]
              /\ UNCHANGED <<balance, expected>>
    /\ txWrites' = [txWrites EXCEPT ![p] = NoWrites]
    /\ rowLock' = Released(p)
    /\ pc' = [pc EXCEPT ![p] = "t_create"]
    /\ UNCHANGED <<active, cardMutexes, op, locals, transfer, payment, err,
                   records>>

\* ------------------------------------------------------------- cache client
\* Mutant: an error of redis is returned to the caller.
CacheErrorPropagated == IF cacheUp THEN NoErr ELSE "redis: connection refused"

\* The error returned by Client.Get, Client.Set and Client.Delete: nil on
\* every path.
CacheError == NoErr

\* Client.Get(key): the value, or nil when the key is missing or redis does
\* not answer.
CacheGet(key) == IF cacheUp /\ key \in Cards THEN cache[key] ELSE Nil

\* Client.Set(key, value, ttl): stores the value unless redis does not answer.
CacheSet(key, value) ==
    IF cacheUp THEN [cache EXCEPT ![key] = value] ELSE cache

\* Client.Delete(key) for each key of keys: removes the key unless redis does
\* not answer.
CacheDelete(keys) ==
    [c \in Cards |-> IF c \in keys /\ cacheUp THEN Nil ELSE cache[c]]

\* `_ = s.cache.Delete(ctx, key)` for each entity of keys, made by the call of p.
Invalidate(p, keys) ==
    /\ cache' = CacheDelete(keys)
    /\ cacheErr' = CacheError
    /\ deleteCalls' = deleteCalls \cup {<<CallID(p), c, cacheUp>> : c \in keys}
    /\ UNCHANGED <<cacheUp, reader>>

\* transferRepo.Create(transfer) after the transaction, then the return; when
\* the record was written and the transaction succeeded, the keys of both
\* entities are deleted before the return.
CreateTransferRecord(p) ==
    /\ UNCHANGED <<expected, pre, instance, worker, services>>
    /\ pc[p] = "t_create"
    /\ \E ok \in BOOLEAN:
         IF ok
         THEN /\ transferRecs' = transferRecs \cup
                     {[id |-> CallID(p), Status |-> transfer[p].Status,
                       ErrorMessage |-> transfer[p].ErrorMessage]}
              /\ IF txErr[p] = NoErr
                 THEN Invalidate(p, {op[p].source, op[p].destination})
                 ELSE UNCHANGED caching
              /\ Return(p, txErr[p])
         ELSE /\ transferRecs' = transferRecs
              /\ UNCHANGED caching
              /\ Return(p, "create transfer record: store error")
    /\ UNCHANGED <<store, cardMutexes, transfer, payment, paymentRecs,
                   logging>>

\* ------------------------------------------------------------- payment
\* Mutant: every request gets a mutex of its own for the card.
getMutexPerRequest(p) == <<p, op[p].card>>

\* s.cardMutexes.LoadOrStore(cardID.String(), &sync.Mutex{}): the one mutex
\* of the card in the map of the instance that serves p.
getMutex(p) == <<instance[p], op[p].card>>

\* Mutant: every call gets a mutex of its own.
MutexFreeAlways(k) == TRUE

\* mutex.Lock() returns only when no request holds the mutex.
MutexFree(k) == cardMutexes[k] = NoProc

\* Mutant: the mutex is not released.
UnlockedNever(p) == cardMutexes

\* defer mutex.Unlock()
Unlocked(p) ==
    [k \in Instances \X CardIDs |->
        IF cardMutexes[k] = p THEN NoProc ELSE cardMutexes[k]]

\* Mutant: the send is tried even when the buffer is full.
ChannelHasRoomAlways == TRUE

\* `case s.logChannel <- log` can proceed: the buffer is not full.
ChannelHasRoom == Len(logChannel) < LogChannelCap

\* logPayment(ctx, payment.ID, status, errorMessage): a non-blocking send to
\* logChannel and, when the buffer is full, paymentLogRepo.Create on the
\* calling path, whose error is dropped.
logPayment(p, status, msg) ==
    LET log == [id |-> CallID(p), Status |-> status, ErrorMessage |-> msg] IN
    /\ paymentLogs' = paymentLogs \cup {log}
    /\ IF ChannelHasRoom
       THEN /\ logChannel' = Append(logChannel, log)
            /\ logStore' = logStore
       ELSE /\ logChannel' = logChannel
            /\ \E ok \in BOOLEAN:
                 logStore' = IF ok THEN Append(logStore, log) ELSE logStore

\* A request enters ProcessCardPayment(merchantAccountID, cardID, amount).
ProcessCardPayment(p, m, c, amt) ==
    /\ CanCall(p)
    /\ op' = [op EXCEPT ![p] = [kind |-> "payment", source |-> 0,
                                destination |-> 0, merchant |-> m,
                                card |-> c, amount |-> amt]]
    /\ pc' = [pc EXCEPT ![p] = "p_validate"]
    /\ pre' = IF Quiet THEN balance ELSE pre
    /\ UNCHANGED <<expected, instance, worker, services, caching>>
    /\ UNCHANGED <<store, cardMutexes, locals, transfer, payment, txErr, err,
                   records>>

\* The amount check made before the card's mutex is requested.
ValidatePayment(p) ==
    /\ UNCHANGED <<expected, pre, instance, worker, services, caching>>
    /\ pc[p] = "p_validate"
    /\ IF InvalidAmount(op[p].amount)
       THEN Return(p, ErrInvalidAmount)
       ELSE /\ pc' = [pc EXCEPT ![p] = "p_mutex"]
            /\ UNCHANGED <<op, locals, txErr, err>>
    /\ UNCHANGED <<store, cardMutexes, transfer, payment, records>>

\* getMutex(cardID).Lock(): blocks while another payment holds the mutex.
LockMutex(p) ==
    /\ UNCHANGED <<expected, pre, instance, worker, services, caching>>
    /\ pc[p] = "p_mutex"
    /\ MutexFree(getMutex(p))
    /\ cardMutexes' = [cardMutexes EXCEPT ![getMutex(p)] = p]
    /\ pc' = [pc EXCEPT ![p] = "p_merchant"]
    /\ UNCHANGED <<store, op, locals, transfer, payment, txErr, err, records>>

\* A validation of the payment failed with reason e: a Failed record is
\* created (the error of Create is dropped), the call returns the record and
\* e, and the deferred Unlock runs.
RejectPayment(p, e) ==
    /\ payment' = [payment EXCEPT ![p] =
           [Status |-> PaymentStatusFailed, ErrorMessage |-> ""]]
    /\ \E ok \in BOOLEAN:
         paymentRecs' = IF ok
                        THEN paymentRecs \cup
                               {[id |-> CallID(p), Status |-> PaymentStatusFailed]}
                        ELSE paymentRecs
    /\ logPayment(p, PaymentStatusFailed, e)
    /\ Return(p, e)
    /\ cardMutexes' = Unlocked(p)

\* accountRepo.FindByID(merchantAccountID) and the checks on the merchant.
FindMerchant(p) ==
    /\ UNCHANGED <<expected, pre, instance, worker, services, caching>>
    /\ pc[p] = "p_merchant"
    /\ LET m == op[p].merchant IN
       \/ RejectPayment(p, StoreErr)
       \/ /\ ~AccountExists(m)
          /\ RejectPayment(p, ErrAccountNotFound)
       \/ /\ AccountExists(m)
          /\ IF ~AccountActive(m) THEN RejectPayment(p, ErrAccountInactive)
             ELSE IF ~AccountIsMerchant(m)
             THEN RejectPayment(p, "account is not a merchant")
             ELSE /\ pc' = [pc EXCEPT ![p] = "p_card"]
                  /\ UNCHANGED <<cardMutexes, op, locals, payment, txErr, err,
                                 paymentRecs, logging>>
    /\ UNCHANGED <<store, transfer, transferRecs>>

\* cardRepo.FindByIDForUpdate(cardID) on the plain connection: the statement
\* waits for the row, reads it, and its lock ends with the statement.
FindCard(p) ==
    /\ UNCHANGED <<expected, pre, instance, worker, services, caching>>
    /\ pc[p] = "p_card"
    /\ LET c == op[p].card IN
       \/ RejectPayment(p, StoreErr)
       \/ /\ c \notin Cards
          /\ RejectPayment(p, "card not found")
       \/ /\ c \in Cards
          /\ rowLock[c] = NoProc
          /\ IF ~active[c] THEN RejectPayment(p, "card is not active")
             ELSE /\ srcBal' = [srcBal EXCEPT ![p] = balance[c]]
                  /\ pc' = [pc EXCEPT ![p] = "p_create"]
                  /\ UNCHANGED <<cardMutexes, op, dstBal, payment, txErr, err,
                                 paymentRecs, logging>>
    /\ UNCHANGED <<store, transfer, transferRecs>>

\* paymentRepo.Create(payment) with status Pending, then the balance check.
CreatePaymentRecord(p) ==
    /\ UNCHANGED <<expected, pre, instance, worker, services, caching>>
    /\ pc[p] = "p_create"
    /\ payment' = [payment EXCEPT ![p] =
           [Status |-> PaymentStatusPending, ErrorMessage |-> ""]]
    /\ \E ok \in BOOLEAN:
         IF ok
         THEN /\ paymentRecs' = paymentRecs \cup
                     {[id |-> CallID(p), Status |-> PaymentStatusPending]}
              /\ IF Overdraft(NewCardBalance(srcBal[p], op[p].amount))
                 THEN /\ txErr' = [txErr EXCEPT ![p] = ErrInsufficientBalance]
                      /\ pc' = [pc EXCEPT ![p] = "p_fail"]
                 ELSE /\ pc' = [pc EXCEPT ![p] = "p_update"]
                      /\ UNCHANGED txErr
              /\ UNCHANGED <<err, cardMutexes, locals, op, logging>>
         ELSE /\ logPayment(p, PaymentStatusFailed, StoreErr)
              /\ Return(p, "create payment: store error")
              /\ cardMutexes' = Unlocked(p)
              /\ UNCHANGED paymentRecs
    /\ UNCHANGED <<store, transfer, transferRecs>>

\* cardRepo.UpdateBalance(cardID, card.Balance.Sub(amount)) on the plain
\* connection: an UPDATE that waits for the row and commits at once.
UpdateCardBalance(p) ==
    /\ UNCHANGED <<pre, instance, worker, services, caching>>
    /\ pc[p] = "p_update"
    /\ LET c == op[p].card IN
       \/ /\ rowLock[c] = NoProc
          /\ balance' = [balance EXCEPT ![c] = NewCardBalance(srcBal[p], op[p].amount)]
          /\ expected' = [expected EXCEPT ![c] = @ - op[p].amount]
          /\ pc' = [pc EXCEPT ![p] = "p_accept"]
          /\ UNCHANGED txErr
       \/ /\ txErr' = [txErr EXCEPT ![p] = "update balance: store error"]
          /\ pc' = [pc EXCEPT ![p] = "p_fail"]
          /\ UNCHANGED <<balance, expected>>
    /\ UNCHANGED <<active, rowLock, txWrites, cardMutexes, op, locals, transfer,
                   payment, err, records>>

\* Mutant: the update inserts a second row and keeps the old one.
SavedKeepsOld(p, status) ==
    paymentRecs \cup {[id |-> CallID(p), Status |-> status]}

\* paymentRepo.Update(payment) replaces the row of the call.
Saved(p, status) ==
    {r \in paymentRecs : r.id # CallID(p)} \cup
        {[id |-> CallID(p), Status |-> status]}

\* The payment is marked Failed after its record was created: the status
\* update (its error is dropped), the return, the deferred Unlock.
FailPayment(p) ==
    /\ UNCHANGED <<expected, pre, instance, worker, services, caching>>
    /\ pc[p] = "p_fail"
    /\ payment' = [payment EXCEPT ![p] =
           [Status |-> PaymentStatusFailed, ErrorMessage |-> ""]]
    /\ \E ok \in BOOLEAN:
         paymentRecs' = IF ok THEN Saved(p, PaymentStatusFailed) ELSE paymentRecs
    /\ logPayment(p, PaymentStatusFailed,
                  IF txErr[p] = ErrInsufficientBalance
                  THEN ErrInsufficientBalance
                  ELSE "failed to update balance: store error")
    /\ Return(p, txErr[p])
    /\ cardMutexes' = Unlocked(p)
    /\ UNCHANGED <<store, transfer, transferRecs>>

\* Mutant: a failed status update is returned as an error.
AcceptPaymentStrict(p) ==
    /\ UNCHANGED <<expected, pre, instance, worker, services>>
    /\ pc[p] = "p_accept"
    /\ payment' = [payment EXCEPT ![p] =
           [Status |-> PaymentStatusAccepted, ErrorMessage |-> ""]]
    /\ \E ok \in BOOLEAN:
         IF ok
         THEN /\ paymentRecs' = Saved(p, PaymentStatusAccepted)
              /\ Invalidate(p, {op[p].card})
              /\ Return(p, NoErr)
         ELSE /\ paymentRecs' = paymentRecs
              /\ UNCHANGED caching
              /\ Return(p, StoreErr)
    /\ logPayment(p, PaymentStatusAccepted, "")
    /\ cardMutexes' = Unlocked(p)
    /\ UNCHANGED <<store, transfer, transferRecs>>

\* The payment is marked Accepted: the status update, the deletion of the
\* card's cache key when the update succeeded, the return with a nil error
\* whether or not the update succeeded, the deferred Unlock.
AcceptPayment(p) ==
    /\ UNCHANGED <<expected, pre, instance, worker, services>>
    /\ pc[p] = "p_accept"
    /\ payment' = [payment EXCEPT ![p] =
           [Status |-> PaymentStatusAccepted, ErrorMessage |-> ""]]
    /\ \E ok \in BOOLEAN:
         IF ok
         THEN /\ paymentRecs' = Saved(p, PaymentStatusAccepted)
              /\ Invalidate(p, {op[p].card})
         ELSE /\ paymentRecs' = paymentRecs
              /\ UNCHANGED caching
    /\ logPayment(p, PaymentStatusAccepted, "")
    /\ Return(p, NoErr)
    /\ cardMutexes' = Unlocked(p)
    /\ UNCHANGED <<store, transfer, transferRecs>>

\* ------------------------------------------------------------- log worker
\* Everything the log worker does not touch.
requests == <<store, cardMutexes, pc, op, locals, transfer, payment, txErr, err,
              transferRecs, paymentRecs, expected, pre, instance, caching,
              services>>

\* Mutant: the rows of the batch are inserted twice.
CreateBatchTwice(b) == logStore' = logStore \o b \o b

\* paymentLogRepo.CreateBatch(ctx, batch): one insert of all the entries; its
\* error is dropped by the worker.
CreateBatch(b) ==
    \E ok \in BOOLEAN: logStore' = IF ok THEN logStore \o b ELSE logStore

\* Mutant: the batch is flushed one entry late.
BatchFullLate(b) == Len(b) > BatchSize

\* len(batch) >= 10
BatchFull(b) == Len(b) >= BatchSize

\* `case log, ok := <-s.logChannel` with ok: the entry joins the batch, which
\* is flushed and emptied when it is full.
WorkerReceive ==
    /\ workerRunning
    /\ logChannel # <<>>
    /\ logChannel' = Tail(logChannel)
    /\ LET b == Append(batch, Head(logChannel)) IN
         IF BatchFull(b)
         THEN CreateBatch(b) /\ batch' = <<>>
         ELSE logStore' = logStore /\ batch' = b
    /\ UNCHANGED <<requests, paymentLogs, workerRunning>>

\* `case <-ticker.C`: a non-empty batch is flushed and emptied.
WorkerTick ==
    /\ workerRunning
    /\ Len(batch) > 0
    /\ CreateBatch(batch)
    /\ batch' = <<>>
    /\ UNCHANGED <<requests, paymentLogs, logChannel, workerRunning>>

\* `case <-ctx.Done()`: the worker returns as it is.
WorkerCtxDone ==
    /\ workerRunning
    /\ workerRunning' = FALSE
    /\ UNCHANGED <<requests, logging, batch>>

\* ------------------------------------------------------------- reader
\* GetAccount returns the account (its balance) or an error.
Answer(value, e) ==
    reader' = [reader EXCEPT !.pc = "idle", !.account = Nil,
                             !.result = value, !.err = e]

\* A request enters accountService.GetAccount(id), directly or from GetBalance.
GetAccount(id) ==
    /\ reader.pc = "idle"
    /\ reader' = [pc |-> "get", id |-> id, account |-> Nil, result |-> Nil,
                  err |-> NoErr]
    /\ UNCHANGED <<cache, cacheUp, cacheErr, deleteCalls>>
    /\ UNCHANGED <<store, cardMutexes, pc, op, locals, transfer, payment,
                   txErr, err, records, expected, pre, instance, worker, services>>

\* s.cache.Get(cacheKey(id)): a hit is returned, a miss falls through.
ReadCache ==
    /\ reader.pc = "get"
    /\ cacheErr' = CacheError
    /\ LET data == CacheGet(reader.id) IN
         IF data # Nil
         THEN Answer(data, NoErr)
         ELSE reader' = [reader EXCEPT !.pc = "find"]
    /\ UNCHANGED <<cache, cacheUp, deleteCalls>>

\* s.repo.FindByID(id): a plain read of the committed row.
FetchAccount ==
    /\ reader.pc = "find"
    /\ \/ Answer(Nil, StoreErr)
       \/ /\ reader.id \notin Cards
          /\ Answer(Nil, ErrAccountNotFound)
       \/ /\ reader.id \in Cards
          /\ reader' = [reader EXCEPT !.pc = "set",
                                      !.account = balance[reader.id]]
    /\ UNCHANGED <<cache, cacheUp, cacheErr, deleteCalls>>

\* s.cache.Set(cacheKey(id), payload, accountCacheTTL), then the return.
FillCache ==
    /\ reader.pc = "set"
    /\ cache' = CacheSet(reader.id, reader.account)
    /\ cacheErr' = CacheError
    /\ Answer(reader.account, NoErr)
    /\ UNCHANGED <<cacheUp, deleteCalls>>

\* The TTL of a stored value ends.
CacheExpires(c) ==
    /\ cache[c] # Nil
    /\ cache' = [cache EXCEPT ![c] = Nil]
    /\ UNCHANGED <<cacheUp, cacheErr, deleteCalls, reader>>

\* redis stops answering, and answers again.
RedisFails ==
    /\ cacheUp
    /\ cacheUp' = FALSE
    /\ UNCHANGED <<cache, cacheErr, deleteCalls, reader>>

RedisRecovers ==
    /\ ~cacheUp
    /\ cacheUp' = TRUE
    /\ UNCHANGED <<cache, cacheErr, deleteCalls, reader>>

\* The steps of the reader and of the cache's environment leave the requests,
\* the records and the log worker as they are.
ReaderStep ==
    /\ \/ ReadCache
       \/ FetchAccount
       \/ FillCache
       \/ \E c \in Cards: CacheExpires(c)
       \/ RedisFails
       \/ RedisRecovers
    /\ UNCHANGED <<store, cardMutexes, pc, op, locals, transfer, payment,
                   txErr, err, records, expected, pre, instance, worker, services>>

\* ------------------------------------------------------------- system
\* The steps of a call in progress.
Step(p) ==
    \/ ValidateTransfer(p)
    \/ ValidatePayment(p)
    \/ WithTransactionBegin(p)
    \/ LockSource(p)
    \/ LockDestination(p)
    \/ UpdateSource(p)
    \/ UpdateDestination(p)
    \/ WithTransactionCommit(p)
    \/ CreateTransferRecord(p)
    \/ LockMutex(p)
    \/ FindMerchant(p)
    \/ FindCard(p)
    \/ CreatePaymentRecord(p)
    \/ UpdateCardBalance(p)
    \/ FailPayment(p)
    \/ AcceptPayment(p)

\* Requests arrive at any time and run concurrently.
Next ==
    \E p \in Procs:
        \/ \E c \in TransferCalls: ProcessTransfer(p, c[1], c[2], c[3])
        \/ \E c \in PaymentCalls: ProcessCardPayment(p, c[1], c[2], c[3])
        \/ Step(p)

Spec == Init /\ [][Next]_vars

\* Requests run one at a time: a call is entered only when none is in
\* progress, so pre holds the committed balances the call found.
NextSeq ==
    \E p \in Procs:
        \/ \E c \in TransferCalls:
               Quiet /\ ProcessTransfer(p, c[1], c[2], c[3])
        \/ \E c \in PaymentCalls:
               Quiet /\ ProcessCardPayment(p, c[1], c[2], c[3])
        \/ Step(p)

SpecSeq == Init /\ [][NextSeq]_vars

\* Two engine instances, each with its own token map, on one store.
SpecMulti == InitMulti /\ [][Next]_vars

\* The steps of a card payment in progress.
PaymentStep(p) ==
    \/ ValidatePayment(p)
    \/ LockMutex(p)
    \/ FindMerchant(p)
    \/ FindCard(p)
    \/ CreatePaymentRecord(p)
    \/ UpdateCardBalance(p)
    \/ FailPayment(p)
    \/ AcceptPayment(p)

\* Card payments of a positive amount on card 1, to each kind of merchant.
LogCalls == {c \in PaymentCalls : c[2] = 1 /\ c[3] > 0}

\* The store of the payment service with its log worker: all cards active
\* and full.
InitLog ==
    /\ Init
    /\ balance = [c \in Cards |-> MaxBalance]
    /\ active = [c \in Cards |-> TRUE]

\* Card payments and the log worker, the worker's context being any context.
NextLog ==
    \/ \E p \in Procs:
           \/ \E c \in LogCalls: ProcessCardPayment(p, c[1], c[2], c[3])
           \/ PaymentStep(p)
    \/ WorkerReceive
    \/ WorkerTick
    \/ WorkerCtxDone

SpecLog == InitLog /\ [][NextLog]_vars

\* ------------------------------------------------------------- cache spec
\* The steps of a transfer.
TransferStep(p) ==
    \/ ValidateTransfer(p)
    \/ WithTransactionBegin(p)
    \/ LockSource(p)
    \/ LockDestination(p)
    \/ UpdateSource(p)
    \/ UpdateDestination(p)
    \/ WithTransactionCommit(p)
    \/ CreateTransferRecord(p)

\* Transfers from entity 1 to entity 2 and reads of entity 1; 0 names no row.
CacheCalls == {c \in TransferCalls : c[1] = 1 /\ c[2] = 2 /\ c[3] > 0}
\* Payments to the good merchant on entity 1.
CachePayments == {c \in PaymentCalls : c[1] = 10 /\ c[2] = 1 /\ c[3] > 0}
ReadIDs == {0, 1}

\* Transfers and payments as writers, one read-through reader, and the
\* cache's environment.
NextCache ==
    \/ \E p \in Procs:
           \/ \E c \in CacheCalls: ProcessTransfer(p, c[1], c[2], c[3])
           \/ TransferStep(p)
           \/ \E c \in CachePayments: ProcessCardPayment(p, c[1], c[2], c[3])
           \/ PaymentStep(p)
    \/ \E id \in ReadIDs: GetAccount(id)
    \/ ReaderStep

SpecCache == InitLog /\ [][NextCache]_vars

\* ------------------------------------------------------------- card service
\* card.AccountID: cards 1 and 2 belong to account 10, card 3 to account 12;
\* accounts 11 and 13 have no card.
AccountID(c) == IF c = 3 THEN 12 ELSE 10

\* cardRepo.FindByAccountID(accountID): the rows of the account's cards.
FindByAccountID(a) == {c \in Cards : AccountID(c) = a}

\* Mutant: the active flag of the card is not looked at.
CardActiveAlways(c) == TRUE

\* `if card.Active`
CardActive(c) == active[c]

RECURSIVE TotalOf(_)
\* The loop over the cards: total = total.Add(card.Balance) for active cards.
TotalOf(cards) ==
    IF cards = {} THEN 0
    ELSE LET c == CHOOSE x \in cards: TRUE IN
         (IF CardActive(c) THEN balance[c] ELSE 0) + TotalOf(cards \ {c})

\* cardService.GetAccountTotalBalance(accountID): one query, then the sum.
GetAccountTotalBalance(a) ==
    /\ \/ total' = [account |-> a, value |-> 0, err |-> "get cards: store error"]
       \/ total' = [account |-> a, value |-> TotalOf(FindByAccountID(a)),
                    err |-> NoErr]
    /\ UNCHANGED <<store, cardMutexes, pc, op, locals, transfer, payment,
                   txErr, err, records, expected, pre, instance, worker, caching,
                   authState, cardState>>

\* Payments on card 1 change its balance between calls of the card service.
NextTotal ==
    \/ \E a \in AccountIDs: GetAccountTotalBalance(a)
    \/ \E p \in Procs:
           \/ \E c \in CachePayments: ProcessCardPayment(p, c[1], c[2], c[3])
           \/ PaymentStep(p)

SpecTotal == Init /\ [][NextTotal]_vars

\* ------------------------------------------------------------- card material
\* Characters of a card number, an expiry or a CVV: the digits 0..9 and these.
Space == 10
Dash == 11
Slash == 12
Letter == 13

\* len(cardNumber) < 13 || len(cardNumber) > 19
MinCardLen == 13
MaxCardLen == 19

IsDigit(c) == c \in 0..9

\* strings.ReplaceAll for each character of chars.
Remove(s, chars) == SelectSeq(s, LAMBDA c: c \notin chars)

\* regexp.MustCompile(`\D`).ReplaceAllString(cardNumber, "")
OnlyDigits(s) == SelectSeq(s, IsDigit)

\* The loop of validateLuhn from position i down to 1: every second digit
\* from the right is doubled, and 9 is taken off a double above 9.
RECURSIVE LuhnSum(_, _, _)
LuhnSum(s, i, isEven) ==
    IF i = 0 THEN 0
    ELSE LET doubled == IF 2 * s[i] > 9 THEN 2 * s[i] - 9 ELSE 2 * s[i]
         IN (IF isEven THEN doubled ELSE s[i]) + LuhnSum(s, i - 1, ~isEven)

\* CardValidator.validateLuhn
validateLuhn(cardNumber) ==
    LET s == OnlyDigits(cardNumber) IN
    /\ Len(s) >= MinCardLen
    /\ Len(s) <= MaxCardLen
    /\ LuhnSum(s, Len(s), FALSE) % 10 = 0

\* ^(0[1-9]|1[0-2])/(\d{2})$
ExpiryFormat(expiry) ==
    /\ Len(expiry) = 5
    /\ \/ expiry[1] = 0 /\ expiry[2] \in 1..9
       \/ expiry[1] = 1 /\ expiry[2] \in 0..2
    /\ expiry[3] = Slash
    /\ IsDigit(expiry[4]) /\ IsDigit(expiry[5])

\* ^\d{3,4}$
CVVFormat(cvv) ==
    /\ Len(cvv) \in 3..4
    /\ \A i \in 1..Len(cvv): IsDigit(cvv[i])

DaysIn(year, month) ==
    IF month = 2 THEN (IF year % 4 = 0 THEN 29 ELSE 28)
    ELSE IF month \in {4, 6, 9, 11} THEN 30 ELSE 31

\* The month now.AddDate(0, -1, 0) falls in, counted from year 0: the month
\* before, or this month when the month before has no such day.
MonthBefore(now) ==
    LET year == IF now.month = 1 THEN now.year - 1 ELSE now.year
        month == IF now.month = 1 THEN 12 ELSE now.month - 1
    IN IF now.day > DaysIn(year, month)
       THEN now.year * 12 + now.month
       ELSE year * 12 + month

\* CardValidator.validateExpiry: the first day of the expiry month, of the
\* year 20YY, is after now less one month.
validateExpiry(expiry, now) ==
    LET month == expiry[1] * 10 + expiry[2]
        year == expiry[4] * 10 + expiry[5] + 2000
    IN year * 12 + month > MonthBefore(now)

\* Mutant: the expiry is checked for its format only.
ValidateCardAnyDate(cardNumber, expiry, cvv, now) ==
    /\ validateLuhn(Remove(cardNumber, {Space, Dash}))
    /\ ExpiryFormat(expiry)
    /\ CVVFormat(cvv)

\* CardValidator.ValidateCard: nil (TRUE) or ErrInvalidCard (FALSE).
ValidateCard(cardNumber, expiry, cvv, now) ==
    /\ validateLuhn(Remove(cardNumber, {Space, Dash}))
    /\ ExpiryFormat(expiry)
    /\ validateExpiry(expiry, now)
    /\ CVVFormat(cvv)

\* Card numbers: a valid 16-digit number, the same with dashes, with a
\* letter, with a wrong check digit, a valid 13-digit number, and numbers of
\* 12 and 20 digits whose Luhn sum is a multiple of ten.
Visa == [i \in 1..16 |-> IF i = 1 THEN 4 ELSE 1]
CardNumbers ==
    { Visa,
      <<4, 1, 1, 1, Dash, 1, 1, 1, 1, Dash, 1, 1, 1, 1, Dash, 1, 1, 1, 1>>,
      Visa \o <<Letter>>,
      [Visa EXCEPT ![16] = 2],
      [i \in 1..13 |-> IF i = 1 THEN 4 ELSE 2],
      [i \in 1..12 |-> 0],
      [i \in 1..20 |-> 0] }

\* Expiries: 12/30, 13/30, 10/26, 11/26, 03/26 and 1230.
GoodExpiry == <<1, 2, Slash, 3, 0>>
Expiries ==
    { GoodExpiry, <<1, 3, Slash, 3, 0>>, <<1, 0, Slash, 2, 6>>,
      <<1, 1, Slash, 2, 6>>, <<0, 3, Slash, 2, 6>>, <<1, 2, 3, 0>> }

GoodCVV == <<1, 2, 3>>
CVVs == { GoodCVV, <<1, 2, 3, 4>>, <<1, 2>>, <<1, 2, Letter>>, <<1, 2, 3, 4, 5>> }

\* time.Now() of a call: 2 November 2026 or 31 March 2026.
Clock == { [year |-> 2026, month |-> 11, day |-> 2],
           [year |-> 2026, month |-> 3, day |-> 31] }

\* The card material of a call differs from the good card in one part at most.
CardInputs ==
    {<<n, GoodExpiry, GoodCVV>> : n \in CardNumbers}
        \cup {<<Visa, e, GoodCVV>> : e \in Expiries}
        \cup {<<Visa, GoodExpiry, c>> : c \in CVVs}

\* Calls of the variant: the good merchant with every card and the amounts
\* 0 and 1; the inactive and the missing merchant with the good card.
MaterialCalls ==
    {<<10, a, c, now>> : a \in {0, 1}, c \in CardInputs, now \in Clock}
        \cup {<<m, 1, <<Visa, GoodExpiry, GoodCVV>>, now>> :
                  m \in {11, 13}, now \in Clock}

\* What the calls of the variant leave as it is.
MaterialFrame ==
    UNCHANGED <<store, cardMutexes, transfer, transferRecs, expected, pre,
                instance, worker, total, authState>>

\* defer mutex.Unlock()
AccountUnlocked(p) ==
    [a \in AccountIDs |->
        IF accountMutexes[a] = p THEN NoProc ELSE accountMutexes[a]]

\* A request enters ProcessCardPayment(merchantAccountID, amount, cardNumber,
\* cardExpiry, cardCVV).
ProcessCardPaymentWithCard(p, m, amt, card, now) ==
    /\ MaterialFrame
    /\ CanCall(p)
    /\ op' = [op EXCEPT ![p] = [kind |-> "material", source |-> 0,
                                destination |-> 0, merchant |-> m,
                                card |-> 0, amount |-> amt]]
    /\ material' = [material EXCEPT ![p] =
           [number |-> card[1], expiry |-> card[2], cvv |-> card[3],
            now |-> now]]
    /\ pc' = [pc EXCEPT ![p] = "m_validate"]
    /\ UNCHANGED <<locals, payment, txErr, err, paymentRecs, logging, caching,
                   accountMutexes, accountBalance>>

\* The amount check and s.validator.ValidateCard, made before getMutex: an
\* amount that is not positive returns a nil payment; a card that fails
\* gets a Failed record (the error of Create is dropped) and a log entry.
ValidateCardPayment(p) ==
    /\ MaterialFrame
    /\ pc[p] = "m_validate"
    /\ material' = [material EXCEPT ![p] = NoMaterial]
    /\ IF InvalidAmount(op[p].amount)
       THEN /\ Return(p, ErrInvalidAmount)
            /\ UNCHANGED <<payment, paymentRecs, logging>>
       ELSE IF ~ValidateCard(material[p].number, material[p].expiry,
                             material[p].cvv, material[p].now)
       THEN /\ payment' = [payment EXCEPT ![p] =
                   [Status |-> PaymentStatusFailed, ErrorMessage |-> ""]]
            /\ \E ok \in BOOLEAN:
                 paymentRecs' =
                     IF ok
                     THEN paymentRecs \cup
                            {[id |-> CallID(p), Status |-> PaymentStatusFailed]}
                     ELSE paymentRecs
            /\ logPayment(p, PaymentStatusFailed, ErrInvalidCard)
            /\ Return(p, ErrInvalidCard)
       ELSE /\ pc' = [pc EXCEPT ![p] = "m_mutex"]
            /\ UNCHANGED <<op, locals, payment, txErr, err, paymentRecs, logging>>
    /\ UNCHANGED <<caching, accountMutexes, accountBalance>>

\* s.getMutex(merchantAccountID).Lock(): blocks while another payment to the
\* merchant holds the mutex.
LockAccountMutex(p) ==
    /\ MaterialFrame
    /\ pc[p] = "m_mutex"
    /\ accountMutexes[op[p].merchant] = NoProc
    /\ accountMutexes' = [accountMutexes EXCEPT ![op[p].merchant] = p]
    /\ pc' = [pc EXCEPT ![p] = "m_merchant"]
    /\ UNCHANGED <<op, locals, payment, txErr, err, paymentRecs, logging,
                   caching, material, accountBalance>>

\* A check on the merchant failed with reason e after the mutex was taken.
RejectMerchant(p, e) ==
    /\ payment' = [payment EXCEPT ![p] =
           [Status |-> PaymentStatusFailed, ErrorMessage |-> ""]]
    /\ \E ok \in BOOLEAN:
         paymentRecs' = IF ok
                        THEN paymentRecs \cup
                               {[id |-> CallID(p), Status |-> PaymentStatusFailed]}
                        ELSE paymentRecs
    /\ logPayment(p, PaymentStatusFailed, e)
    /\ Return(p, e)
    /\ accountMutexes' = AccountUnlocked(p)

\* accountRepo.FindByIDForUpdate(merchantAccountID) and the checks on the row.
FindMerchantForUpdate(p) ==
    /\ MaterialFrame
    /\ pc[p] = "m_merchant"
    /\ LET m == op[p].merchant IN
       \/ RejectMerchant(p, StoreErr)
       \/ /\ ~AccountExists(m)
          /\ RejectMerchant(p, ErrAccountNotFound)
       \/ /\ AccountExists(m)
          /\ IF ~AccountActive(m) THEN RejectMerchant(p, ErrAccountInactive)
             ELSE /\ dstBal' = [dstBal EXCEPT ![p] = accountBalance[m]]
                  /\ pc' = [pc EXCEPT ![p] = "m_create"]
                  /\ UNCHANGED <<op, srcBal, payment, txErr, err, paymentRecs,
                                 logging, accountMutexes>>
    /\ UNCHANGED <<caching, material, accountBalance>>

\* paymentRepo.Create(payment) with status Pending.
CreateMaterialRecord(p) ==
    /\ MaterialFrame
    /\ pc[p] = "m_create"
    /\ payment' = [payment EXCEPT ![p] =
           [Status |-> PaymentStatusPending, ErrorMessage |-> ""]]
    /\ \E ok \in BOOLEAN:
         IF ok
         THEN /\ paymentRecs' = paymentRecs \cup
                     {[id |-> CallID(p), Status |-> PaymentStatusPending]}
              /\ pc' = [pc EXCEPT ![p] = "m_balance"]
              /\ UNCHANGED <<op, locals, txErr, err, logging, accountMutexes>>
         ELSE /\ logPayment(p, PaymentStatusFailed, StoreErr)
              /\ Return(p, "create payment: store error")
              /\ accountMutexes' = AccountUnlocked(p)
              /\ UNCHANGED paymentRecs
    /\ UNCHANGED <<caching, material, accountBalance>>

\* accountRepo.UpdateBalance(merchantAccountID, merchant.Balance.Add(amount));
\* when it fails the payment is marked Failed (the error of Update is dropped).
UpdateMerchantBalance(p) ==
    /\ MaterialFrame
    /\ pc[p] = "m_balance"
    /\ \/ /\ accountBalance' = [accountBalance EXCEPT ![op[p].merchant] =
                                    NewDestBalance(dstBal[p], op[p].amount)]
          /\ pc' = [pc EXCEPT ![p] = "m_accept"]
          /\ UNCHANGED <<op, locals, payment, txErr, err, paymentRecs, logging,
                         accountMutexes>>
       \/ /\ payment' = [payment EXCEPT ![p] =
                 [Status |-> PaymentStatusFailed, ErrorMessage |-> ""]]
          /\ \E ok \in BOOLEAN:
               paymentRecs' = IF ok THEN Saved(p, PaymentStatusFailed)
                              ELSE paymentRecs
          /\ logPayment(p, PaymentStatusFailed,
                        "failed to update balance: store error")
          /\ Return(p, "update balance: store error")
          /\ accountMutexes' = AccountUnlocked(p)
          /\ UNCHANGED accountBalance
    /\ UNCHANGED <<caching, material>>

\* The payment is marked Accepted; when the update succeeded the merchant's
\* cache key is deleted; the call returns a nil error either way.
AcceptMaterialPayment(p) ==
    /\ MaterialFrame
    /\ pc[p] = "m_accept"
    /\ payment' = [payment EXCEPT ![p] =
           [Status |-> PaymentStatusAccepted, ErrorMessage |-> ""]]
    /\ \E ok \in BOOLEAN:
         IF ok
         THEN /\ paymentRecs' = Saved(p, PaymentStatusAccepted)
              /\ Invalidate(p, {op[p].merchant})
         ELSE /\ paymentRecs' = paymentRecs
              /\ UNCHANGED caching
    /\ logPayment(p, PaymentStatusAccepted, "")
    /\ Return(p, NoErr)
    /\ accountMutexes' = AccountUnlocked(p)
    /\ UNCHANGED <<material, accountBalance>>

NextMaterial ==
    \E p \in Procs:
        \/ \E c \in MaterialCalls:
               ProcessCardPaymentWithCard(p, c[1], c[2], c[3], c[4])
        \/ ValidateCardPayment(p)
        \/ LockAccountMutex(p)
        \/ FindMerchantForUpdate(p)
        \/ CreateMaterialRecord(p)
        \/ UpdateMerchantBalance(p)
        \/ AcceptMaterialPayment(p)

SpecMaterial == InitLog /\ [][NextMaterial]_vars

\* ------------------------------------------------------------- authentication
\* Emails, passwords and the display name the clients send.
Emails == {"a@x", "b@x"}
Passwords == {"pw", "bad"}
Names == {"Ann"}

\* bcrypt.GenerateFromPassword: the hash is never the password itself.
GenerateFromPassword(password) == <<"bcrypt", password>>

\* bcrypt.CompareHashAndPassword: nil exactly for the hash of this password.
CompareHashAndPassword(hash, password) == hash = GenerateFromPassword(password)

\* uuid.New() for the n-th account: sixteen bytes, of which Login reads four.
uuidNew(n) == <<n, 0, 0, 0>>

\* accountIDUint: bytes 0..3 of the account id, little endian.
accountIDUint(id) == id[1] + id[2] * 256 + id[3] * 65536 + id[4] * 16777216

\* Mutant: the lookup never finds a row.
FindByEmailNone(email) == {}

\* accountRepo.FindByEmail: the rows with this email (none: ErrRecordNotFound).
FindByEmail(email) == {u \in users : u.email = email}

\* JWTService.ValidateToken: the signature was made with the service's secret.
ValidateToken(token) == token.signed

\* JWTService.ExtractTokenID: an error for an invalid token and for one
\* without a token id (an access token).
ExtractTokenID(token) == IF ValidateToken(token) /\ token.id # 0 THEN token.id ELSE 0

\* JWTService.GenerateAccessToken and GenerateRefreshToken.
GenerateAccessToken(userID, email) ==
    [signed |-> TRUE, id |-> 0, userID |-> userID, email |-> email]

GenerateRefreshToken(tokenID, userID, email) ==
    [signed |-> TRUE, id |-> tokenID, userID |-> userID, email |-> email]

\* TokenStore.StoreRefreshToken, GetRefreshToken and DeleteRefreshToken on
\* the fail-open cache client: a Set or Delete that redis does not answer
\* changes nothing, a Get that redis does not answer finds nothing.
StoreRefreshToken(tokenID, userID, email) ==
    IF cacheUp
    THEN {t \in refreshTokens : t.id # tokenID}
             \cup {[id |-> tokenID, userID |-> userID, email |-> email]}
    ELSE refreshTokens

GetRefreshToken(tokenID) ==
    IF cacheUp THEN {t \in refreshTokens : t.id = tokenID} ELSE {}

DeleteRefreshToken(tokenID) ==
    IF cacheUp THEN {t \in refreshTokens : t.id # tokenID} ELSE refreshTokens

\* The tokens a client can present: the refresh tokens it was given, the
\* same with a signature of another key, and access tokens.
Presented ==
    issued \cup {[t EXCEPT !.signed = FALSE] : t \in issued}
           \cup {GenerateAccessToken(t.userID, t.email) : t \in issued}

\* The auth calls leave the ledger, the requests, the records, the log worker
\* and the account cache as they are.
AuthFrame ==
    UNCHANGED <<store, cardMutexes, pc, op, locals, transfer, payment, txErr,
                err, records, expected, pre, instance, worker, caching, total,
                cardState>>

AuthIdle(p) == session[p].pc = "idle"

\* Logins that have not yet generated their token id.
LoginsInProgress ==
    Cardinality({q \in Procs : session[q].op = "Login" /\ ~AuthIdle(q)})

\* The call of p returns: its arguments go out of scope.
AuthReturn(p, account, access, refresh, e) ==
    session' = [session EXCEPT ![p] =
                    [NoSession EXCEPT !.op = session[p].op, !.account = account,
                                      !.access = access, !.refresh = refresh,
                                      !.err = e]]

\* Register(email, password, name) is called.
Register(p, email, password, name) ==
    /\ AuthFrame
    /\ AuthIdle(p)
    /\ session' = [session EXCEPT ![p] =
                       [NoSession EXCEPT !.pc = "r_find", !.op = "Register",
                                         !.email = email, !.password = password,
                                         !.name = name]]
    /\ UNCHANGED <<users, refreshTokens, nextTokenID, issued, loggedOut>>

\* existing, err := s.accountRepo.FindByEmail(ctx, email)
RegisterFind(p) ==
    /\ AuthFrame
    /\ session[p].pc = "r_find"
    /\ \/ AuthReturn(p, NoAccount, NoToken, NoToken,
                     "check account existence: store error")
       \/ /\ FindByEmail(session[p].email) # {}
          /\ AuthReturn(p, NoAccount, NoToken, NoToken, ErrUserAlreadyExists)
       \/ /\ FindByEmail(session[p].email) = {}
          /\ session' = [session EXCEPT ![p].pc = "r_create"]
    /\ UNCHANGED <<users, refreshTokens, nextTokenID, issued, loggedOut>>

\* s.accountRepo.Create(ctx, account): the unique index on the email refuses
\* a second row with the same email.
RegisterCreate(p) ==
    /\ AuthFrame
    /\ session[p].pc = "r_create"
    /\ \/ /\ AuthReturn(p, NoAccount, NoToken, NoToken,
                        "create account: store error")
          /\ UNCHANGED users
       \/ /\ \E u \in users: u.email = session[p].email
          /\ AuthReturn(p, NoAccount, NoToken, NoToken,
                        "create account: duplicate entry")
          /\ UNCHANGED users
       \/ /\ \A u \in users: u.email # session[p].email
          /\ LET account == [id |-> uuidNew(Cardinality(users) + 1),
                             email |-> session[p].email,
                             name |-> session[p].name,
                             hash |-> GenerateFromPassword(session[p].password)]
             IN /\ users' = users \cup {account}
                /\ AuthReturn(p, account, NoToken, NoToken, NoErr)
    /\ UNCHANGED <<refreshTokens, nextTokenID, issued, loggedOut>>

\* Login(email, password) is called.
Login(p, email, password) ==
    /\ AuthFrame
    /\ AuthIdle(p)
    /\ nextTokenID + LoginsInProgress <= MaxTokens
    /\ session' = [session EXCEPT ![p] =
                       [NoSession EXCEPT !.pc = "l_find", !.op = "Login",
                                         !.email = email, !.password = password]]
    /\ UNCHANGED <<users, refreshTokens, nextTokenID, issued, loggedOut>>

\* account, err = s.accountRepo.FindByEmail(ctx, email), then the password.
LoginFind(p) ==
    /\ AuthFrame
    /\ session[p].pc = "l_find"
    /\ \/ AuthReturn(p, NoAccount, NoToken, NoToken, ErrInvalidCredentials)
       \/ \E u \in FindByEmail(session[p].email):
              IF CompareHashAndPassword(u.hash, session[p].password)
              THEN session' = [session EXCEPT ![p].pc = "l_store",
                                              ![p].account = u]
              ELSE AuthReturn(p, NoAccount, NoToken, NoToken,
                              ErrInvalidCredentials)
    /\ UNCHANGED <<users, refreshTokens, nextTokenID, issued, loggedOut>>

\* The tokens are generated and the refresh token is stored.
LoginStore(p) ==
    /\ AuthFrame
    /\ session[p].pc = "l_store"
    /\ LET account == session[p].account
           userID == accountIDUint(account.id)
           tokenID == nextTokenID
           refresh == GenerateRefreshToken(tokenID, userID, account.email)
       IN /\ nextTokenID' = nextTokenID + 1
          /\ refreshTokens' = StoreRefreshToken(tokenID, userID, account.email)
          /\ IF CacheError = NoErr
             THEN /\ AuthReturn(p, account,
                                GenerateAccessToken(userID, account.email),
                                refresh, NoErr)
                  /\ issued' = issued \cup {refresh}
             ELSE /\ AuthReturn(p, NoAccount, NoToken, NoToken,
                                "store refresh token: redis error")
                  /\ UNCHANGED issued
    /\ UNCHANGED <<users, loggedOut>>

\* RefreshToken(refreshToken): one read of the token store.
RefreshToken(p, token) ==
    /\ AuthFrame
    /\ AuthIdle(p)
    /\ LET tokenID == ExtractTokenID(token)
           valid == /\ tokenID # 0
                    /\ \E t \in GetRefreshToken(tokenID):
                           t.userID = token.userID /\ t.email = token.email
       IN session' = [session EXCEPT ![p] =
              [NoSession EXCEPT
                  !.op = "RefreshToken", !.token = token,
                  !.access = IF valid
                             THEN GenerateAccessToken(token.userID, token.email)
                             ELSE NoToken,
                  !.err = IF valid THEN NoErr ELSE ErrInvalidRefreshToken]]
    /\ UNCHANGED <<users, refreshTokens, nextTokenID, issued, loggedOut>>

\* Logout(refreshToken): one delete in the token store.
Logout(p, token) ==
    /\ AuthFrame
    /\ AuthIdle(p)
    /\ LET tokenID == ExtractTokenID(token)
           e == IF tokenID = 0 THEN ErrInvalidRefreshToken ELSE CacheError
       IN /\ session' = [session EXCEPT ![p] =
                 [NoSession EXCEPT !.op = "Logout", !.token = token, !.err = e]]
          /\ refreshTokens' = IF tokenID = 0 THEN refreshTokens
                              ELSE DeleteRefreshToken(tokenID)
          /\ loggedOut' = IF e = NoErr THEN loggedOut \cup {tokenID}
                          ELSE loggedOut
    /\ UNCHANGED <<users, nextTokenID, issued>>

\* The seven-day TTL of a stored refresh token runs out.
RefreshTokenExpires(tokenID) ==
    /\ AuthFrame
    /\ \E t \in refreshTokens: t.id = tokenID
    /\ refreshTokens' = {t \in refreshTokens : t.id # tokenID}
    /\ UNCHANGED <<users, session, nextTokenID, issued, loggedOut>>

\* Redis stops answering, or answers again.
RedisOutage ==
    /\ RedisFails \/ RedisRecovers
    /\ UNCHANGED <<store, cardMutexes, pc, op, locals, transfer, payment,
                   txErr, err, records, expected, pre, instance, worker, services>>

\* Both clients register and log in; RefreshToken and Logout are one step
\* each, so one client making them shows every interleaving.
NextAuth ==
    \/ \E p \in Procs:
           \/ \E e \in Emails, name \in Names: Register(p, e, "pw", name)
           \/ RegisterFind(p)
           \/ RegisterCreate(p)
           \/ \E e \in Emails, w \in Passwords: Login(p, e, w)
           \/ LoginFind(p)
           \/ LoginStore(p)
    \/ \E t \in Presented: RefreshToken(1, t)
    \/ \E t \in Presented: Logout(1, t)
    \/ \E id \in 1..MaxTokens: RefreshTokenExpires(id)
    \/ RedisOutage

\* The ledger plays no part in the auth calls: it starts with every card
\* active and funded.
SpecAuth == InitLog /\ [][NextAuth]_vars

\* The worker as NewPaymentService starts it, with context.Background(), which
\* is never done; the worker's select is served whenever a case is ready.
NextLogBackground ==
    \/ \E p \in Procs:
           \/ \E c \in LogCalls: ProcessCardPayment(p, c[1], c[2], c[3])
           \/ PaymentStep(p)
    \/ WorkerReceive
    \/ WorkerTick

SpecLogFair ==
    /\ InitLog
    /\ [][NextLogBackground]_vars
    /\ WF_vars(WorkerReceive)
    /\ WF_vars(WorkerTick)

\* ------------------------------------------------------------- claims
\* Rows whose lock p's transaction holds.
Held(p) == {c \in Cards : rowLock[c] = p}

\* The step in which p's call returns.
Returns(p) == pc[p] # "done" /\ pc'[p] = "done"

\* The call returned an error of the store, not a rejection.
Fault(e) == e \in {StoreErr, "create transfer record: store error"}

IsTransfer(p) == op[p].kind = "transfer"

\* C1: in every reachable state, under any interleaving of card payments and
\* transfers, the stored balance of every card is greater than or equal to
\* zero.
C1_BalanceNeverNegative == \A c \in Cards: balance[c] >= 0

\* A payment and a transfer that debit the same card have both committed, the
\* card's stored balance is zero and the two debits add up to more than it held.
C1_Witness ==
    \E p \in Procs, q \in Procs, c \in Cards:
        /\ pc[p] = "done" /\ payment[p].Status = PaymentStatusAccepted
        /\ pc[q] = "done" /\ transfer[q].Status = TransferStatusCompleted
        /\ err[q] = NoErr
        /\ balance[c] = 0
        /\ expected[c] < 0

\* C2: the balance mutations of a card payment and a concurrent transfer on the
\* same card are totally ordered: the balance of every card equals its initial
\* balance plus the deltas of all the operations that committed.
C2_NoLostUpdate == \A c \in Cards: balance[c] = expected[c]

\* The row whose lock the next statement of p's transaction asks for.
NeededRow(p) ==
    IF pc[p] = "t_source" THEN op[p].source
    ELSE IF pc[p] = "t_dest" THEN op[p].destination
    ELSE 0

\* Transfer p waits for a row lock that transfer q holds.
WaitsFor(p, q) == p # q /\ NeededRow(p) \in Cards /\ rowLock[NeededRow(p)] = q

\* C3: no state is reachable in which each of a set of transfers waits for a
\* row lock held by another transfer of the set.
C3_NoCircularWait ==
    \A W \in SUBSET Procs:
        W # {} => \E p \in W: \A q \in W: ~WaitsFor(p, q)

\* C4: a transfer A to B and a transfer B to A lock the same entity first, so
\* two transfers in opposite directions never hold different first rows.
C4_SameFirstLock ==
    \A p \in Procs, q \in Procs:
        ( /\ p # q
          /\ IsTransfer(p) /\ IsTransfer(q)
          /\ op[p].source = op[q].destination
          /\ op[p].destination = op[q].source
          /\ Cardinality(Held(p)) = 1
          /\ Cardinality(Held(q)) = 1 )
        => Held(p) = Held(q)

\* The balances after amount a has moved from s to d, starting from pre.
Moved(s, d, a) ==
    [c \in Cards |-> IF c = s THEN pre[c] - a
                     ELSE IF c = d THEN pre[c] + a
                     ELSE pre[c]]

\* C5: a transfer of a positive amount between two distinct, existing, active
\* cards whose source holds at least the amount, run alone and with the store
\* answering every statement, returns Completed, leaves the source with the
\* amount less and the destination with the amount more, and changes no other
\* balance.
C5_TransferMovesAmount ==
    [][\A p \in Procs:
         ( /\ IsTransfer(p) /\ Returns(p)
           /\ op[p].amount > 0
           /\ op[p].source # op[p].destination
           /\ op[p].source \in Cards /\ op[p].destination \in Cards
           /\ active[op[p].source] /\ active[op[p].destination]
           /\ pre[op[p].source] >= op[p].amount
           /\ ~Fault(err'[p]) )
         => /\ transfer'[p].Status = TransferStatusCompleted
            /\ err'[p] = NoErr
            /\ balance' = Moved(op[p].source, op[p].destination, op[p].amount)
      ]_vars

\* A transfer has returned Completed and the balances differ from those it found.
C5_Witness ==
    \E p \in Procs:
        /\ pc[p] = "done"
        /\ transfer[p].Status = TransferStatusCompleted
        /\ err[p] = NoErr
        /\ \A q \in Procs \ {p}: pc[q] = "idle"
        /\ balance # pre

\* C6: a transfer that returns Failed, run alone, leaves every balance as it
\* found it; in particular the source debit is undone when the destination
\* credit fails after it.
C6_FailedTransferRollsBack ==
    [][\A p \in Procs:
         ( /\ IsTransfer(p) /\ Returns(p)
           /\ transfer'[p].Status = TransferStatusFailed )
         => balance' = pre
      ]_vars

\* A transfer has returned after its destination credit failed.
C6_Witness ==
    \E p \in Procs:
        /\ pc[p] = "done"
        /\ transfer[p].Status = TransferStatusFailed
        /\ transfer[p].ErrorMessage =
               "failed to update destination balance: store error"

\* Records persisted for the call of p.
RecordsOf(p) ==
    Cardinality({r \in transferRecs : r.id = CallID(p)}) +
    Cardinality({r \in paymentRecs : r.id = CallID(p)})

\* C7: every invocation of ProcessTransfer or ProcessCardPayment, whatever its
\* outcome, has persisted exactly one record when it returns.
C7_OneRecordPerCall == \A p \in Procs: pc[p] = "done" => RecordsOf(p) = 1

\* C8: for every amount less than or equal to zero both operations return a
\* result with status Failed and reason "invalid amount", and take no lock and
\* change no balance.
C8_InvalidAmountFailed ==
    [][\A p \in Procs:
         ( /\ pc[p] \in {"t_validate", "p_validate"}
           /\ pc'[p] # pc[p]
           /\ op[p].amount <= 0 )
         => /\ pc'[p] = "done"
            /\ IF IsTransfer(p)
               THEN transfer'[p] = [Status |-> TransferStatusFailed,
                                    ErrorMessage |-> ErrInvalidAmount]
               ELSE payment'[p].Status = PaymentStatusFailed
            /\ balance' = balance
            /\ rowLock' = rowLock
            /\ cardMutexes' = cardMutexes
      ]_vars

\* C9: for every transfer whose source equals its destination and whose amount
\* is positive, the result is a transfer with status Failed, no lock is taken
\* and no balance is changed.
C9_SelfTransferFailed ==
    [][\A p \in Procs:
         ( /\ pc[p] = "t_validate"
           /\ pc'[p] # pc[p]
           /\ op[p].amount > 0
           /\ op[p].source = op[p].destination )
         => /\ pc'[p] = "done"
            /\ transfer'[p].Status = TransferStatusFailed
            /\ balance' = balance
            /\ rowLock' = rowLock
      ]_vars

\* The reason for which the transfer of p is to be rejected, "" when none.
Reason(p) ==
    IF op[p].source \notin Cards THEN "source card not found"
    ELSE IF ~active[op[p].source] THEN "source card is not active"
    ELSE IF pre[op[p].source] < op[p].amount THEN ErrInsufficientBalance
    ELSE IF op[p].destination \notin Cards THEN "destination card not found"
    ELSE IF ~active[op[p].destination] THEN "destination card is not active"
    ELSE ""

\* C10: a transfer rejected because its source or destination is absent or
\* inactive, or because the source balance is below the amount, run alone and
\* with the store answering every statement, leaves every balance unchanged
\* and persists exactly one transfer record, with status Failed and the reason
\* as its error message.
C10_RejectedTransferRecorded ==
    [][\A p \in Procs:
         ( /\ IsTransfer(p) /\ Returns(p)
           /\ op[p].amount > 0
           /\ op[p].source # op[p].destination
           /\ Reason(p) # ""
           /\ ~Fault(err'[p]) )
         => /\ balance' = pre
            /\ {r \in transferRecs' : r.id = CallID(p)} =
                   {[id |-> CallID(p), Status |-> TransferStatusFailed,
                     ErrorMessage |-> Reason(p)]}
            /\ err'[p] = Reason(p)
      ]_vars

\* A transfer from an inactive source card has returned, with its record.
C10_Witness ==
    \E p \in Procs:
        /\ pc[p] = "done"
        /\ transfer[p] = [Status |-> TransferStatusFailed,
                          ErrorMessage |-> "source card is not active"]
        /\ [id |-> CallID(p), Status |-> TransferStatusFailed,
            ErrorMessage |-> "source card is not active"] \in transferRecs

\* errors.MapErrorToHTTP: the HTTP status of an error returned by the engine.
MapErrorToHTTP(e) ==
    IF e = ErrAccountNotFound THEN 404
    ELSE IF e \in {ErrInsufficientBalance, ErrAccountInactive, ErrInvalidAmount}
    THEN 400
    ELSE 500

\* The HTTP status the handler answers with once the engine's call returned.
HandlerStatus(p) == IF err[p] # NoErr THEN MapErrorToHTTP(err[p]) ELSE 200

IsPayment(p) == op[p].kind = "payment"

\* The step in which the call of p returns a business rejection: an invalid
\* amount or a self-transfer, a rejection inside the transfer's transaction,
\* a failed check on the merchant or the card, an insufficient card balance.
RejectionStep(p) ==
    /\ Returns(p)
    /\ \/ pc[p] \in {"t_validate", "p_validate"}
       \/ /\ pc[p] = "t_create"
          /\ transfer[p].ErrorMessage \in
                 {"source card not found", "source card is not active",
                  ErrInsufficientBalance, "destination card not found",
                  "destination card is not active"}
          /\ err'[p] # "create transfer record: store error"
       \/ pc[p] \in {"p_merchant", "p_card"} /\ err'[p] # StoreErr
       \/ pc[p] = "p_fail" /\ txErr[p] = ErrInsufficientBalance

\* C11: every business rejection is returned to the caller as a normal result
\* with status Failed and no error, and the handler answers it with HTTP 200.
C11_RejectionIsNormalResult ==
    [][\A p \in Procs:
         RejectionStep(p)
         => /\ err'[p] = NoErr
            /\ HandlerStatus(p)' = 200
            /\ IF IsTransfer(p)
               THEN transfer'[p].Status = TransferStatusFailed
               ELSE payment'[p].Status = PaymentStatusFailed
      ]_vars

\* C12: a transfer whose balance transaction failed with a store error leaves
\* the balances it found (run alone) and has its record persisted with status
\* Failed.
C12_StoreErrorPersistedFailed ==
    [][\A p \in Procs:
         ( /\ IsTransfer(p) /\ Returns(p)
           /\ err'[p] = StoreErr )
         => /\ balance' = pre
            /\ \E r \in transferRecs':
                   r.id = CallID(p) /\ r.Status = TransferStatusFailed
      ]_vars

\* C13: every persisted transfer record has status Completed or Failed; a
\* record is never persisted with status Pending.
C13_PersistedStatusTerminal ==
    \A r \in transferRecs:
        r.Status \in {TransferStatusCompleted, TransferStatusFailed}

\* The call of p is between mutex.Lock() and the deferred mutex.Unlock().
InSection(p) ==
    pc[p] \in {"p_merchant", "p_card", "p_create", "p_update", "p_fail",
               "p_accept"}

\* C14: each card has one token in the instance's map, so at most one payment
\* per card is between acquisition and release, and a payment waiting for a
\* token waits only for a payment on the same card.
C14_OnePaymentPerToken ==
    /\ \A p \in Procs, q \in Procs:
           (p # q /\ InSection(p) /\ InSection(q))
           => getMutex(p) # getMutex(q)
    /\ \A p \in Procs:
           ( /\ pc[p] = "p_mutex"
             /\ \A q \in Procs \ {p}:
                    InSection(q) => op[q].card # op[p].card )
           => MutexFree(getMutex(p))

\* A payment waits for the token of a card while another payment on the same
\* card holds it.
C14_Witness ==
    \E p \in Procs, q \in Procs:
        /\ InSection(p)
        /\ pc[q] = "p_mutex"
        /\ op[q].card = op[p].card
        /\ cardMutexes[getMutex(q)] = p

\* C16: a token is held only by a payment that is between acquisition and
\* return; once a payment has returned, on any path, it holds no token.
C16_TokenReleased ==
    \A k \in Instances \X CardIDs:
        cardMutexes[k] # NoProc
        => InSection(cardMutexes[k]) /\ getMutex(cardMutexes[k]) = k

\* Both requests were payments that took a token and have returned, one of
\* them on a store error, and no token is held.
C16_Witness ==
    /\ \A p \in Procs: pc[p] = "done" /\ payment[p] # NoRecord
    /\ \E p \in Procs: err[p] = StoreErr
    /\ \E p \in Procs: payment[p].Status = PaymentStatusAccepted
    /\ \A k \in Instances \X CardIDs: cardMutexes[k] = NoProc

\* C17: a call that waits for the coordinator token can end at any time, as
\* it must when its deadline expires: some step of the call is enabled.
C17_WaiterCanAbort ==
    \A p \in Procs: pc[p] = "p_mutex" => ENABLED Step(p)

\* Only card payments have been requested.
OnlyPayments ==
    \A p \in Procs: op[p].kind # "transfer" /\ transfer[p] = NoRecord

\* C15: with one engine instance per request on a shared store, card payments
\* alone lose no update and overdraw no card: every balance is the initial
\* balance less the amounts of the accepted payments, and is not negative.
C15_StoreSerializesPayments ==
    OnlyPayments
    => \A c \in Cards: balance[c] = expected[c] /\ balance[c] >= 0

\* The call returned an error of the store, not a rejection.
PaymentFault(e) == e \in {StoreErr, "create payment: store error"}

\* The payments table's rows of the call of p.
PaymentRecordsOf(p) == {r \in paymentRecs : r.id = CallID(p)}

\* C18: a card payment to a valid merchant on an existing active card whose
\* balance is below the amount, run alone with the store answering, returns
\* Failed with "insufficient balance" and logs it, every balance stays as it
\* was found, and no step of any operation leaves a negative balance.
C18_InsufficientPaymentFailed ==
    [][/\ \A c \in Cards: balance'[c] >= 0
       /\ \A p \in Procs:
            ( /\ IsPayment(p) /\ Returns(p)
              /\ op[p].amount > 0
              /\ op[p].merchant = 10
              /\ op[p].card \in Cards
              /\ active[op[p].card]
              /\ pre[op[p].card] < op[p].amount
              /\ ~PaymentFault(err'[p]) )
            => /\ payment'[p].Status = PaymentStatusFailed
               /\ err'[p] = ErrInsufficientBalance
               /\ balance' = pre
               /\ [id |-> CallID(p), Status |-> PaymentStatusFailed,
                   ErrorMessage |-> ErrInsufficientBalance] \in paymentLogs'
      ]_vars

\* A payment has returned Failed for an insufficient balance.
C18_Witness ==
    \E p \in Procs:
        /\ pc[p] = "done"
        /\ payment[p].Status = PaymentStatusFailed
        /\ err[p] = ErrInsufficientBalance
        /\ [id |-> CallID(p), Status |-> PaymentStatusFailed] \in paymentRecs

\* The reason for which the payment of p is to be rejected before its record
\* is created, "" when none: merchant 13 has no row, 11 is inactive, 12 has
\* not the merchant role.
PaymentReason(p) ==
    IF op[p].merchant = 13 THEN ErrAccountNotFound
    ELSE IF op[p].merchant = 11 THEN ErrAccountInactive
    ELSE IF op[p].merchant = 12 THEN "account is not a merchant"
    ELSE IF op[p].card \notin Cards THEN "card not found"
    ELSE IF ~active[op[p].card] THEN "card is not active"
    ELSE ""

C20_AcceptedDespiteUpdateFailure ==
    [][\A p \in Procs:
         ( /\ pc[p] = "p_accept" /\ Returns(p)
           /\ paymentRecs' = paymentRecs )
         => /\ payment'[p].Status = PaymentStatusAccepted
            /\ err'[p] = NoErr
            /\ [id |-> CallID(p), Status |-> PaymentStatusAccepted,
                ErrorMessage |-> ""] \in paymentLogs'
            /\ balance' = balance
            /\ balance' = [pre EXCEPT ![op[p].card] = @ - op[p].amount]
      ]_vars

\* A payment has returned Accepted while its persisted record is still Pending.
C20_Witness ==
    \E p \in Procs:
        /\ pc[p] = "done"
        /\ payment[p].Status = PaymentStatusAccepted
        /\ err[p] = NoErr
        /\ PaymentRecordsOf(p) =
               {[id |-> CallID(p), Status |-> PaymentStatusPending]}
        /\ balance # pre

\* The entries handed to logPayment by the call of p.
LogsOf(p) == {l \in paymentLogs : l.id = CallID(p)}

\* C21: every return of the payment operation, the rejection of an invalid
\* amount included, has emitted exactly one attempt-log entry of the call.
C21_OneLogPerTerminalBranch ==
    [][\A p \in Procs:
         (IsPayment(p) /\ Returns(p)) => Cardinality(LogsOf(p)') = 1
      ]_vars

\* The entry that the step hands to logPayment, as a set of at most one.
Emitted == paymentLogs' \ paymentLogs

Range(s) == {s[i] : i \in 1..Len(s)}

\* C26: the pending batch is never left full; the worker, the only receiver
\* of the queue, adds each received entry to the batch and flushes the batch
\* in one insert exactly when that entry fills it or when a tick finds it
\* non-empty, and the batch is empty after each flush.
C26_BatchFlushRule ==
    /\ [](Len(batch) < BatchSize)
    /\ [][/\ logChannel' # logChannel /\ Emitted = {}
             => /\ logChannel # <<>>
                /\ logChannel' = Tail(logChannel)
                /\ LET b == Append(batch, Head(logChannel)) IN
                     IF Len(b) = BatchSize
                     THEN batch' = <<>> /\ logStore' \in {logStore \o b, logStore}
                     ELSE batch' = b /\ logStore' = logStore
          /\ logChannel' = logChannel /\ batch' # batch
             => /\ batch # <<>>
                /\ batch' = <<>>
                /\ logStore' \in {logStore \o batch, logStore}
          /\ logStore' # logStore /\ Emitted = {}
             => batch' = <<>>
         ]_vars

\* Both requests' entries went through the queue and were written by the
\* worker; nothing is pending.
C26_Witness ==
    /\ Len(logStore) = BatchSize
    /\ Range(logStore) = paymentLogs
    /\ batch = <<>>
    /\ logChannel = <<>>
    /\ workerRunning

\* C27: with a worker whose select is served whenever a case is ready, the
\* entry emitted by a call is eventually a row of the log store.
C27_EntryEventuallyPersisted ==
    \A p \in Procs: (LogsOf(p) # {}) ~> (LogsOf(p) \subseteq Range(logStore))

\* C28: the worker returns only with an empty batch and an empty queue.
C28_WorkerStopsDrained ==
    [][(workerRunning /\ ~workerRunning')
       => batch = <<>> /\ logChannel = <<>>
      ]_vars

\* The statuses of the payments table's rows of the call of p.
StatusesOf(p) == {r.Status : r \in PaymentRecordsOf(p)}

C30_PaymentsSerializable ==
    [][OnlyPayments'
       => /\ \A c \in Cards: balance'[c] = expected'[c]
          /\ \A p \in Procs:
               /\ pc[p] \in {"p_create", "p_update"}
                  => srcBal[p] = balance[op[p].card]
               /\ (pc[p] = "p_create" /\ pc'[p] = "p_fail")
                  => balance[op[p].card] < op[p].amount
      ]_vars

\* A payment that started while another payment on the same card was in
\* flight, with enough balance at that time, is failed for insufficient
\* balance after the other payment was accepted.
C30_Witness ==
    \E p \in Procs, q \in Procs:
        /\ pc[p] = "p_fail"
        /\ txErr[p] = ErrInsufficientBalance
        /\ pre[op[p].card] >= op[p].amount
        /\ balance[op[p].card] = pre[op[p].card] - op[p].amount
        /\ pc[q] = "done" /\ err[q] = NoErr
        /\ payment[q].Status = PaymentStatusAccepted
        /\ OnlyPayments

\* The entities whose committed balance the call of p has changed when it
\* is about to return: the card of a payment whose deduction was written, the
\* two cards of a transfer whose transaction committed.
Changed(p) ==
    IF pc[p] = "p_accept" THEN {op[p].card}
    ELSE IF pc[p] = "t_create" /\ txErr[p] = NoErr
    THEN {op[p].source, op[p].destination}
    ELSE {}

\* The entities for whose key the call of p has called cache.Delete.
DeletedBy(p) == {d[2] : d \in {x \in deleteCalls : x[1] = CallID(p)}}

\* C22: a call that returns after it changed committed balances has called
\* cache.Delete for the key of every entity it changed.
C22_ChangedKeysDeleted ==
    [][\A p \in Procs: Returns(p) => Changed(p) \subseteq DeletedBy(p)']_vars

\* Every transfer that committed has deleted the key of c, and redis
\* answered the deletion.
Invalidated(c) ==
    \A p \in Procs:
        transfer[p].Status = TransferStatusCompleted
        => <<CallID(p), c, TRUE>> \in deleteCalls

\* C23: when no writer is in progress and every commit's invalidation has
\* reached the cache, the cache holds for an entity either nothing or its
\* committed balance, so a read that starts then returns the committed
\* balance.
C23_CacheCoherent ==
    \A c \in Cards:
        (Quiet /\ Invalidated(c)) => cache[c] \in {Nil, balance[c]}

\* C24: no call of the cache client returns an error; while redis does not
\* answer, Get is a miss (the reader goes on to the store) and Set and Delete
\* leave the cache as it is; and a payment or transfer that reaches its
\* invalidation returns Accepted or Completed with a nil error and leaves the
\* balances as committed, whether or not redis answered the deletion.
C24_CacheFailOpen ==
    /\ [](cacheErr = NoErr)
    /\ [][/\ (~cacheUp /\ reader.pc = "get" /\ reader' # reader)
             => reader'.pc = "find"
          /\ ( /\ ~cacheUp
               /\ \/ reader.pc = "set" /\ reader' # reader
                  \/ \E p \in Procs: Returns(p) )
             => cache' = cache
          /\ \A p \in Procs:
               (Returns(p) /\ DeletedBy(p)' # {})
               => /\ err'[p] = NoErr
                  /\ balance' = balance
                  /\ IF pc[p] = "p_accept"
                     THEN payment'[p].Status = PaymentStatusAccepted
                     ELSE transfer'[p].Status = TransferStatusCompleted
         ]_vars

\* A transfer returned Completed with a nil error although redis did not
\* answer its deletions, and the cache still holds a value for entity 1.
C24_Witness ==
    \E p \in Procs:
        /\ pc[p] = "done"
        /\ err[p] = NoErr
        /\ transfer[p].Status = TransferStatusCompleted
        /\ <<CallID(p), 1, FALSE>> \in deleteCalls
        /\ cache[1] # Nil
        /\ cacheErr = NoErr

\* The number of places of a sequence that hold e.
Count(s, e) == Cardinality({i \in 1..Len(s) : s[i] = e})

\* C40: an entry handed to logPayment is, at any time, at most once in the
\* queue, the pending batch and the log store taken together: it is enqueued
\* or written directly, never both, and the worker writes it in one batch.
C40_NoEntryPersistedTwice ==
    \A e \in paymentLogs:
        Count(logChannel, e) + Count(batch, e) + Count(logStore, e) <= 1

\* Two entries were emitted, each is a row of the log store exactly once, and
\* nothing is pending.
C40_Witness ==
    /\ Cardinality(paymentLogs) = 2
    /\ \A e \in paymentLogs: Count(logStore, e) = 1
    /\ logChannel = <<>>
    /\ batch = <<>>

\* Only transfers have been requested.
OnlyTransfers ==
    \A p \in Procs: op[p].kind # "payment" /\ payment[p] = NoRecord

RECURSIVE SumOver(_, _)
\* The sum of the balances f of the entities of S.
SumOver(f, S) ==
    IF S = {} THEN 0
    ELSE LET c == CHOOSE x \in S: TRUE IN f[c] + SumOver(f, S \ {c})

\* C36: with transfers alone, no step changes the sum of the committed
\* balances, and a transfer that leaves its transaction marked Completed has
\* in that step debited its source and credited its destination by the
\* amount, once.
C36_TransfersConserve ==
    [][OnlyTransfers'
       => /\ SumOver(balance', Cards) = SumOver(balance, Cards)
          /\ \A p \in Procs:
               ( /\ pc[p] = "t_commit" /\ pc'[p] = "t_create"
                 /\ transfer'[p].Status = TransferStatusCompleted )
               => balance' = [balance EXCEPT
                                 ![op[p].source] = @ - op[p].amount,
                                 ![op[p].destination] = @ + op[p].amount]
      ]_vars

\* The first check on the source that fails for the call of p, "" if none.
SourceReason(p) ==
    IF op[p].source \notin Cards THEN "source card not found"
    ELSE IF ~active[op[p].source] THEN "source card is not active"
    ELSE IF balance[op[p].source] < op[p].amount THEN ErrInsufficientBalance
    ELSE ""

\* The first check on the destination that fails for the call of p.
DestinationReason(p) ==
    IF op[p].destination \notin Cards THEN "destination card not found"
    ELSE IF ~active[op[p].destination] THEN "destination card is not active"
    ELSE ""

\* C37: the step that fetches the source rejects the transfer with the first
\* failing check among exists, active, balance >= amount, and then the
\* destination is neither read nor locked; the destination is fetched only
\* after all three passed, and is then rejected with the first failing check
\* among exists, active.
C37_TransferChecksInOrder ==
    [][\A p \in Procs:
         /\ pc[p] \in {"t_begin", "t_source"}
            => dstBal[p] = 0 /\ Held(p) = {}
         /\ (pc[p] = "t_source" /\ pc'[p] = "t_create" /\ txErr'[p] # StoreErr)
            => /\ SourceReason(p) # ""
               /\ transfer'[p] = [Status |-> TransferStatusFailed,
                                  ErrorMessage |-> SourceReason(p)]
               /\ txErr'[p] = SourceReason(p)
               /\ dstBal'[p] = 0
               /\ \A c \in Cards: rowLock'[c] # p
         /\ (pc[p] = "t_source" /\ pc'[p] = "t_dest")
            => SourceReason(p) = ""
         /\ (pc[p] = "t_dest" /\ pc'[p] = "t_create" /\ txErr'[p] # StoreErr)
            => /\ DestinationReason(p) # ""
               /\ transfer'[p] = [Status |-> TransferStatusFailed,
                                  ErrorMessage |-> DestinationReason(p)]
               /\ txErr'[p] = DestinationReason(p)
         /\ (pc[p] = "t_dest" /\ pc'[p] = "t_updsrc")
            => DestinationReason(p) = ""
      ]_vars

\* A transfer whose source holds less than the amount and whose destination
\* does not exist was rejected for insufficient balance.
C37_Witness ==
    \E p \in Procs:
        /\ pc[p] = "t_create"
        /\ op[p].destination \notin Cards
        /\ transfer[p] = [Status |-> TransferStatusFailed,
                          ErrorMessage |-> ErrInsufficientBalance]
        /\ dstBal[p] = 0

\* C38: a transfer returns a nil error exactly when its record has status
\* Completed and was persisted, and a record returned with an error of the
\* balance transaction has status Failed.
C38_NilErrorIffCompleted ==
    [][\A p \in Procs:
         (IsTransfer(p) /\ Returns(p))
         => /\ (err'[p] = NoErr)
               <=> ( /\ transfer'[p].Status = TransferStatusCompleted
                     /\ \E r \in transferRecs': r.id = CallID(p) )
            /\ ( /\ transfer'[p] # NoRecord
                 /\ err'[p] \notin {NoErr, "create transfer record: store error"} )
               => transfer'[p].Status = TransferStatusFailed
      ]_vars

\* C39: once a payment has returned, its row in the payments table has the
\* status returned to the caller, Accepted or Failed, and is not Pending.
C39_PersistedPaymentTerminal ==
    \A p \in Procs:
        (pc[p] = "done" /\ payment[p] # NoRecord)
        => \A r \in PaymentRecordsOf(p):
               /\ r.Status = payment[p].Status
               /\ r.Status \in {PaymentStatusAccepted, PaymentStatusFailed}

\* What card c adds to the total of account a.
Contribution(a) ==
    [c \in Cards |-> IF AccountID(c) = a /\ active[c] THEN balance[c] ELSE 0]

\* C35: GetAccountTotalBalance, when the query succeeds, returns the sum of
\* the balances of the active cards of the account: an inactive card adds
\* nothing and an account without cards yields zero.
C35_TotalOfActiveCards ==
    [][(total' # total /\ total'.err = NoErr)
       => /\ total'.value = SumOver(Contribution(total'.account), Cards)
          /\ (\A c \in Cards: AccountID(c) # total'.account)
             => total'.value = 0
      ]_vars

\* The total of account 10 was returned while its card 2 is inactive and
\* holds a positive balance: only card 1 is counted.
C35_Witness ==
    /\ total.account = 10
    /\ total.err = NoErr
    /\ ~active[2]
    /\ balance[2] > 0
    /\ balance[1] > 0
    /\ total.value = balance[1]

\* A failure of the accounts table itself, as Register reports it.
AuthFault(e) == e \in {"check account existence: store error",
                       "create account: store error"}

\* C33: Register with an email that already has an account returns
\* ErrUserAlreadyExists with a nil account and creates none; Register with an
\* unused email creates exactly one account with that email, that name and a
\* non-empty password hash and returns it; a Register that loses the race for
\* an email creates nothing; and at no time do two accounts share an email
\* (the accounts table answering).
C33_RegisterOncePerEmail ==
    /\ [](\A u, v \in users: u.email = v.email => u = v)
    /\ [][\A p \in Procs:
            /\ ( /\ session[p].pc = "r_find" /\ session'[p] # session[p]
                 /\ \E u \in users: u.email = session[p].email
                 /\ ~AuthFault(session'[p].err) )
               => /\ session'[p].pc = "idle"
                  /\ session'[p].err = ErrUserAlreadyExists
                  /\ session'[p].account = NoAccount
                  /\ users' = users
            /\ ( /\ session[p].pc = "r_find" /\ session'[p] # session[p]
                 /\ \A u \in users: u.email # session[p].email
                 /\ ~AuthFault(session'[p].err) )
               => /\ session'[p].pc = "r_create"
                  /\ users' = users
            /\ ( /\ session[p].pc = "r_create" /\ session'[p] # session[p]
                 /\ ~AuthFault(session'[p].err) )
               => IF \E u \in users: u.email = session[p].email
                  THEN /\ session'[p].err # NoErr
                       /\ session'[p].account = NoAccount
                       /\ users' = users
                  ELSE /\ session'[p].err = NoErr
                       /\ session'[p].account.email = session[p].email
                       /\ session'[p].account.name = session[p].name
                       /\ session'[p].account.hash # <<>>
                       /\ session'[p].account \notin users
                       /\ users' = users \cup {session'[p].account}
      ]_vars

\* One Register created the account of an email and returned it, and another
\* Register with that email was refused.
C33_Witness ==
    \E p, q \in Procs:
        /\ session[p].op = "Register" /\ session[p].err = ErrUserAlreadyExists
        /\ session[q].op = "Register" /\ session[q].err = NoErr
        /\ AuthIdle(q) /\ session[q].account \in users

\* C34: Login with an email that has no account, or with a password that
\* does not match the stored hash, returns ErrInvalidCredentials with empty
\* tokens and a nil account and stores no refresh token; a Login that returns
\* without error has stored exactly one refresh token, under the token id it
\* has just issued, with the account's derived id and email.
C34_LoginStoresOneToken ==
    [][\A p \in Procs:
         /\ ( /\ session[p].pc = "l_find" /\ session'[p] # session[p]
              /\ \A u \in users:
                     u.email = session[p].email
                         => u.hash # GenerateFromPassword(session[p].password) )
            => /\ session'[p].pc = "idle"
               /\ session'[p].err = ErrInvalidCredentials
               /\ session'[p].access = NoToken
               /\ session'[p].refresh = NoToken
               /\ session'[p].account = NoAccount
               /\ refreshTokens' = refreshTokens
         /\ ( /\ session[p].pc = "l_store" /\ session'[p] # session[p]
              /\ session'[p].err = NoErr )
            => /\ \A t \in refreshTokens: t.id # session'[p].refresh.id
               /\ refreshTokens' =
                      refreshTokens \cup
                          {[id |-> session'[p].refresh.id,
                            userID |-> accountIDUint(session[p].account.id),
                            email |-> session[p].account.email]}
      ]_vars

\* C32: once Logout of a refresh token has returned without error, every
\* later RefreshToken with that token returns ErrInvalidRefreshToken; and a
\* RefreshToken returns without error only for a validly signed token whose
\* id is in the token store with the user id and email of its claims.
C32_LoggedOutTokenRefused ==
    [][\A p \in Procs:
         ( /\ session'[p] # session[p]
           /\ session'[p].op = "RefreshToken" )
         => /\ session'[p].token.id \in loggedOut
               => session'[p].err = ErrInvalidRefreshToken
            /\ session'[p].err = NoErr
               => /\ session'[p].token.signed
                  /\ [id |-> session'[p].token.id,
                      userID |-> session'[p].token.userID,
                      email |-> session'[p].token.email] \in refreshTokens
      ]_vars

\* The card material fails the Luhn, the expiry or the CVV check.
Malformed(m) ==
    \/ ~validateLuhn(Remove(m.number, {Space, Dash}))
    \/ ~ExpiryFormat(m.expiry)
    \/ ~validateExpiry(m.expiry, m.now)
    \/ ~CVVFormat(m.cvv)

\* C31: in the variant that validates card material, a payment of a positive
\* amount whose card fails the Luhn, expiry or CVV check returns Failed with
\* ErrInvalidCard in the step that checks the card: the payments table gets
\* the one Failed record of the call (when the insert goes through), one
\* Failed log entry is emitted, the request holds no account mutex before or
\* after, and no mutex, ledger row or account balance is changed.
C31_MalformedCardRejectedFirst ==
    [][\A p \in Procs:
         ( /\ pc[p] = "m_validate" /\ pc'[p] # pc[p]
           /\ ~InvalidAmount(op[p].amount)
           /\ Malformed(material[p]) )
         => /\ pc'[p] = "done"
            /\ err'[p] = ErrInvalidCard
            /\ payment'[p].Status = PaymentStatusFailed
            /\ PaymentRecordsOf(p)' \subseteq
                   {[id |-> CallID(p), Status |-> PaymentStatusFailed]}
            /\ paymentRecs' # paymentRecs
               => PaymentRecordsOf(p)' =
                      {[id |-> CallID(p), Status |-> PaymentStatusFailed]}
            /\ paymentLogs' \ paymentLogs =
                   {[id |-> CallID(p), Status |-> PaymentStatusFailed,
                     ErrorMessage |-> ErrInvalidCard]}
            /\ \A a \in AccountIDs: accountMutexes[a] # p
            /\ accountMutexes' = accountMutexes
            /\ accountBalance' = accountBalance
            /\ balance' = balance /\ rowLock' = rowLock
      ]_vars

\* A payment with a card whose expiry month has passed has returned
\* ErrInvalidCard with its Failed record and log entry, while the other
\* request holds the merchant's mutex.
C31_Witness ==
    \E p, q \in Procs:
        /\ pc[p] = "done" /\ err[p] = ErrInvalidCard
        /\ payment[p].Status = PaymentStatusFailed
        /\ PaymentRecordsOf(p) =
               {[id |-> CallID(p), Status |-> PaymentStatusFailed]}
        /\ [id |-> CallID(p), Status |-> PaymentStatusFailed,
            ErrorMessage |-> ErrInvalidCard] \in paymentLogs
        /\ accountMutexes[10] = q /\ q # p

====
